---------------------------- MODULE Spec2Model ----------------------------
(***************************************************************************)
(* State-machine model of the forum content-extraction pipeline:           *)
(*   DataExtractor.extract_page_data   (src/data_extractor.py)             *)
(*   calculate_engagement_score, categorize_business_opportunity,          *)
(*   generate_summary_stats            (src/utils.py)                      *)
(*                                                                         *)
(* Text is modelled by TLA+ strings, on which TLC evaluates Len, SubSeq,   *)
(* Head, Tail and \o.  A parsed page is the pre-order sequence of its      *)
(* nodes; every node carries its depth, so the descendants of node i are   *)
(* the run of nodes after i that are deeper than i.  An absent attribute   *)
(* is the empty string: the code only ever tests attributes for truth.     *)
(***************************************************************************)
EXTENDS Integers, Sequences, FiniteSets, TLC

VARIABLES
    page,         \* html_content, as the tree BeautifulSoup parses it to
    section,      \* section_name argument of extract_page_data
    now,          \* datetime.now(), in minutes since 2024-01-01T00:00
    pc,           \* position in the pipeline
    soup,         \* the parsed tree (elements are decomposed in place)
    sel,          \* index of the post selector being tried
    posts,        \* located fragments: node indices, in document order
    idx,          \* number of fragments already processed
    posts_data,   \* records accumulated by extract_page_data
    caught,       \* positions in posts of the fragments whose extraction raised
    data,         \* argument of generate_summary_stats: <<[name, posts]>>
    stats,        \* the statistics mapping of generate_summary_stats
    spos,         \* number of posts already folded into stats
    engagement,   \* engagement score of the post folded last
    score_in,     \* argument of a direct call of calculate_engagement_score
    score_out,    \* its result
    self_data,    \* BusinessIntelligenceAnalyzer.data: <<[name, posts]>>
    df,           \* BusinessIntelligenceAnalyzer.df: the rows, in order
    gaps,         \* result of _identify_resource_gaps: <<[name, gaps]>>
    session_active, \* ImamotherScraper.session_active
    user_agent,   \* the User-Agent header of the session
    request,      \* the _make_request call in progress: url, method, attempt
    response,     \* what the last _make_request call returned or raised
    requests_made, \* the requests sent by the method called last: url, method, success
    outcomes,     \* success of each attempt of the current _make_request call
    slept,        \* the retry delays taken in the current _make_request call
    rotations,    \* _set_random_user_agent calls in the current _make_request call
    failures,     \* number of requests that failed so far
    frame,        \* locals of scrape_section: section_name, max_pages, page, section_data
    all_frame,    \* locals of scrape_all_sections: all_data, sections still to do
    called,       \* the public method called last, with its arguments
    ret,          \* what that method returned
    calls,        \* number of public methods called so far
    forum         \* the site: number of records on each page of a section

\* the state of the analyzer
analyzer_vars == <<self_data, df, gaps>>

\* the state of the scraper and of the site
scraper_vars == <<session_active, user_agent, request, response, requests_made,
                  outcomes, slept, rotations, failures, frame, all_frame,
                  called, ret, calls, forum>>

\* the state of extraction and aggregation, but for the position
extraction_vars == <<page, section, now, soup, sel, posts, idx, posts_data,
                     caught, data, stats, spos, engagement, score_in, score_out>>

\* the state beyond extraction and aggregation
others == <<analyzer_vars, scraper_vars>>

vars == <<page, section, now, pc, soup, sel, posts, idx, posts_data, caught,
          data, stats, spos, engagement, score_in, score_out, others>>

\* Bind(v, Op) is Op(v), with v computed once
Bind(v, Op(_)) == Op(v)

\* Python's None; no text of a modelled page is this word
None == "None"

---------------------------------------------------------------------------
(* Python str operations                                                   *)

Ch(s, i) == SubSeq(s, i, i)

UpperAlpha == "ABCDEFGHIJKLMNOPQRSTUVWXYZ"
LowerAlpha == "abcdefghijklmnopqrstuvwxyz"
Digits == "0123456789"

UpperChars == {Ch(UpperAlpha, k) : k \in 1..Len(UpperAlpha)}
LowerChars == {Ch(LowerAlpha, k) : k \in 1..Len(LowerAlpha)}
DigitChars == {Ch(Digits, k) : k \in 1..Len(Digits)}

IsUpperChar(c) == c \in UpperChars
IsLowerChar(c) == c \in LowerChars
IsDigit(c) == c \in DigitChars
IsSpace(c) == c = " "

LowerChar(c) ==
    IF IsUpperChar(c)
    THEN Ch(LowerAlpha, CHOOSE k \in 1..Len(UpperAlpha) : Ch(UpperAlpha, k) = c)
    ELSE c

RECURSIVE LowerFrom(_, _)
LowerFrom(s, i) ==
    IF i > Len(s) THEN "" ELSE LowerChar(Ch(s, i)) \o LowerFrom(s, i + 1)

\* str.lower()
Lower(s) == LowerFrom(s, 1)

\* `p in s`
Contains(s, p) ==
    \E i \in 1..(Len(s) - Len(p) + 1) : SubSeq(s, i, i + Len(p) - 1) = p

\* s.startswith(p)
StartsWith(s, p) == Len(p) <= Len(s) /\ SubSeq(s, 1, Len(p)) = p

\* str.strip()
Strip(s) ==
    LET keep == {i \in 1..Len(s) : ~IsSpace(Ch(s, i))}
    IN  IF keep = {} THEN ""
        ELSE LET lo == CHOOSE i \in keep : \A j \in keep : i <= j
                 hi == CHOOSE i \in keep : \A j \in keep : i >= j
             IN  SubSeq(s, lo, hi)

\* len(s.split()): the number of maximal runs of non-space characters
SplitCount(s) ==
    Cardinality({i \in 1..Len(s) :
        /\ ~IsSpace(Ch(s, i))
        /\ (i = 1 \/ IsSpace(Ch(s, i - 1)))})

\* ' '.join(tokens)
RECURSIVE Join(_)
Join(tokens) ==
    IF tokens = <<>> THEN ""
    ELSE IF Len(tokens) = 1 THEN tokens[1]
    ELSE tokens[1] \o " " \o Join(Tail(tokens))

\* re.search(r'a|b|c', s) for literal alternatives
SearchAny(alts, s) == \E p \in alts : Contains(s, p)

\* re.search(r'(\d+)', s): the leftmost longest run of digits, "" when none
FirstDigits(s) ==
    LET ds == {i \in 1..Len(s) : IsDigit(Ch(s, i))}
    IN  IF ds = {} THEN ""
        ELSE LET lo == CHOOSE i \in ds : \A j \in ds : i <= j
                 run == {j \in lo..Len(s) : \A k \in lo..j : IsDigit(Ch(s, k))}
                 hi == CHOOSE j \in run : \A k \in run : j >= k
             IN  SubSeq(s, lo, hi)

DigitVal(c) == (CHOOSE k \in 1..Len(Digits) : Ch(Digits, k) = c) - 1

RECURSIVE ToInt(_)
\* int(s) for a run of decimal digits
ToInt(s) ==
    IF s = "" THEN 0
    ELSE 10 * ToInt(SubSeq(s, 1, Len(s) - 1)) + DigitVal(Ch(s, Len(s)))

---------------------------------------------------------------------------
(* The parsed tree (BeautifulSoup)                                         *)

AttrNames == {"id", "data-post-id", "data-id", "data-message-id",
              "datetime", "title", "href"}

NoAttrs == [a \in AttrNames |-> ""]

Indent(nodes) == [i \in DOMAIN nodes |-> [nodes[i] EXCEPT !.depth = @ + 1]]

\* <tag class="cls...">kids</tag>
Elem(tag, cls, kids) ==
    <<[tag |-> tag, depth |-> 1, class |-> cls, attrs |-> NoAttrs,
       text |-> "", alive |-> TRUE]>> \o Indent(kids)

\* the same with one attribute a="v"
ElemA(tag, cls, a, v, kids) ==
    <<[tag |-> tag, depth |-> 1, class |-> cls,
       attrs |-> [NoAttrs EXCEPT ![a] = v],
       text |-> "", alive |-> TRUE]>> \o Indent(kids)

\* a text node
Text(s) ==
    <<[tag |-> "#text", depth |-> 1, class |-> <<>>, attrs |-> NoAttrs,
       text |-> s, alive |-> TRUE]>>

IsElement(n) == n.tag # "#text"

\* depth of node i; 0 stands for the BeautifulSoup object (the root)
DepthOf(tree, i) == IF i = 0 THEN 0 ELSE tree[i].depth

\* the nodes of the subtree below i, whether decomposed or not
Subtree(tree, i) ==
    {j \in (i + 1)..Len(tree) :
        \A k \in (i + 1)..j : tree[k].depth > DepthOf(tree, i)}

\* element.descendants: what a search below i visits
Descendants(tree, i) == {j \in Subtree(tree, i) : tree[j].alive}

\* a set of node indices as a sequence in document order
InOrder(tree, S) == SelectSeq([j \in 1..Len(tree) |-> j], LAMBDA j : j \in S)

RECURSIVE TextFrom(_, _, _)
TextFrom(tree, S, j) ==
    IF j > Len(tree) THEN ""
    ELSE (IF j \in S /\ tree[j].tag = "#text" THEN tree[j].text ELSE "")
         \o TextFrom(tree, S, j + 1)

\* element.get_text(): the text nodes below i, concatenated
GetText(tree, i) == TextFrom(tree, Descendants(tree, i), i + 1)

\* the value of the class attribute as CSS attribute selectors see it
ClassAttr(n) == Join(n.class)

\* CSS selectors: .name, [class*="part"], tag
Cls(name) == [kind |-> "class", arg |-> name]
ClsSub(part) == [kind |-> "class*", arg |-> part]
Tag(name) == [kind |-> "tag", arg |-> name]

Matches(n, selector) ==
    /\ IsElement(n)
    /\ CASE selector.kind = "class" ->
              \E k \in DOMAIN n.class : n.class[k] = selector.arg
         [] selector.kind = "class*" ->
              n.class # <<>> /\ Contains(ClassAttr(n), selector.arg)
         [] selector.kind = "tag" -> n.tag = selector.arg

\* element.select(selector): matching descendants in document order
Select(tree, i, selector) ==
    InOrder(tree, {j \in Descendants(tree, i) : Matches(tree[j], selector)})

\* element.select_one(selector): index of the first match, 0 when none
SelectOne(tree, i, selector) ==
    LET found == Select(tree, i, selector)
    IN  IF found = <<>> THEN 0 ELSE found[1]

\* element.find(class_=re.compile(r'a|b')): first descendant element with
\* a class the pattern is found in, 0 when none
FindClass(tree, i, alts) ==
    LET found == InOrder(tree, {j \in Descendants(tree, i) :
                     /\ IsElement(tree[j])
                     /\ tree[j].class # <<>>
                     /\ SearchAny(alts, ClassAttr(tree[j]))})
    IN  IF found = <<>> THEN 0 ELSE found[1]

\* element.find_all(class_=re.compile(r'a|b')), as a set
FindAllClass(tree, i, alts) ==
    {j \in Descendants(tree, i) :
        /\ IsElement(tree[j])
        /\ tree[j].class # <<>>
        /\ SearchAny(alts, ClassAttr(tree[j]))}

\* Tag.decompose(): the element and everything below it is destroyed
Decompose(tree, S) ==
    [j \in DOMAIN tree |->
        IF \E q \in S : j = q \/ j \in Subtree(tree, q)
        THEN [tree[j] EXCEPT !.alive = FALSE]
        ELSE tree[j]]

---------------------------------------------------------------------------
(* Post Locator                                                            *)

post_selectors ==
    <<Cls("post"), Cls("message"), Cls("forum-post"), Cls("topic-post"),
      ClsSub("post"), ClsSub("message"), Cls("thread-item")>>

MinPostText == 50
MinIndicators == 2
MinWords == 10

\* a plausible slip: one indicator is taken to be enough
LooksLikePost_OneIndicator(tree, i) ==
    /\ Len(Strip(GetText(tree, i))) >= MinPostText
    /\ \/ FindClass(tree, i, {"author", "user", "poster"}) # 0
       \/ FindClass(tree, i, {"date", "time", "timestamp"}) # 0
       \/ FindClass(tree, i, {"content", "body", "message"}) # 0
       \/ SplitCount(Strip(GetText(tree, i))) > MinWords

\* _looks_like_post
LooksLikePost(tree, i) ==
    LET text == Strip(GetText(tree, i))
        indicators ==
            <<FindClass(tree, i, {"author", "user", "poster"}) # 0,
              FindClass(tree, i, {"date", "time", "timestamp"}) # 0,
              FindClass(tree, i, {"content", "body", "message"}) # 0,
              SplitCount(text) > MinWords>>
    IN  IF Len(text) < MinPostText THEN FALSE
        ELSE Cardinality({k \in 1..4 : indicators[k]}) >= MinIndicators

\* _find_posts_fallback
FindPostsFallback(tree) ==
    InOrder(tree, {j \in Descendants(tree, 0) :
        /\ tree[j].tag \in {"div", "article", "section"}
        /\ LooksLikePost(tree, j)})

---------------------------------------------------------------------------
(* Field Extractor                                                         *)

\* the module's import statements bind these names
ModuleGlobals == {"re", "logging", "datetime", "Dict", "List", "Optional",
                  "Any", "BeautifulSoup", "Tag", "urljoin", "urlparse"}

\* the value returned by a step that completes, and a raised exception
Ok(v) == [exc |-> FALSE, val |-> v]
Raise(name) == [exc |-> TRUE, val |-> name]

MinutesPerHour == 60
MinutesPerDay == 1440

TwoDigits(n) == IF n < 10 THEN "0" \o ToString(n) ELSE ToString(n)

\* datetime.isoformat() of a time of January 2024, to the minute
IsoFormat(m) ==
    "2024-01-" \o TwoDigits((m \div MinutesPerDay) + 1) \o "T"
        \o TwoDigits((m % MinutesPerDay) \div MinutesPerHour) \o ":"
        \o TwoDigits(m % MinutesPerHour) \o ":00"

\* (now - timedelta(<unit>=n)).isoformat(); the name timedelta is looked
\* up in the module's globals when the expression is evaluated
MinusTimedelta(t, n, unit) ==
    IF "timedelta" \in ModuleGlobals
    THEN Ok(IsoFormat(t - n * unit))
    ELSE Raise("NameError")

\* _parse_relative_time
ParseRelativeTime(time_text_in, t) ==
    LET time_text == Lower(time_text_in)
        number == FirstDigits(time_text)
    IN  IF Contains(time_text, "ago") /\ Contains(time_text, "minute")
        THEN IF number # "" THEN MinusTimedelta(t, ToInt(number), 1)
             ELSE Ok(time_text)
        ELSE IF Contains(time_text, "ago") /\ Contains(time_text, "hour")
        THEN IF number # ""
             THEN MinusTimedelta(t, ToInt(number), MinutesPerHour)
             ELSE Ok(time_text)
        ELSE IF Contains(time_text, "ago") /\ Contains(time_text, "day")
        THEN IF number # ""
             THEN MinusTimedelta(t, ToInt(number), MinutesPerDay)
             ELSE Ok(time_text)
        ELSE Ok(time_text)

id_attributes == <<"id", "data-post-id", "data-id", "data-message-id">>

\* _extract_post_id
ExtractPostId(tree, i) ==
    LET own == SelectSeq(id_attributes, LAMBDA a : tree[i].attrs[a] # "")
        below == InOrder(tree, {j \in Descendants(tree, i) :
                     /\ IsElement(tree[j])
                     /\ SearchAny({"post", "message"}, tree[j].attrs["id"])})
    IN  IF own # <<>> THEN tree[i].attrs[own[1]]
        ELSE IF below # <<>> THEN tree[below[1]].attrs["id"]
        ELSE None

RECURSIVE Repeat(_, _)
\* c * n
Repeat(c, n) == IF n <= 0 THEN "" ELSE c \o Repeat(c, n - 1)

ShortName == 2

\* a plausible slip: the slice of the middle starts one character late
AnonymizeUsername_KeepTwo(name) ==
    IF Len(name) <= ShortName
    THEN "User_" \o Repeat("X", Len(name))
    ELSE SubSeq(name, 1, 2) \o Repeat("X", Len(name) - 3) \o Ch(name, Len(name))

\* _anonymize_username
AnonymizeUsername(name) ==
    IF Len(name) <= ShortName
    THEN "User_" \o Repeat("X", Len(name))
    ELSE Ch(name, 1) \o Repeat("X", Len(name) - 2) \o Ch(name, Len(name))

\* the shared loop "for selector in selectors: element = select_one(...);
\* if element: text = element.get_text().strip(); if text: return text":
\* the text of the first selector whose first match has text, None if none
FirstText(tree, i, selectors) ==
    LET hits == SelectSeq(selectors, LAMBDA s :
                    /\ SelectOne(tree, i, s) # 0
                    /\ Strip(GetText(tree, SelectOne(tree, i, s))) # "")
    IN  IF hits = <<>> THEN None
        ELSE Strip(GetText(tree, SelectOne(tree, i, hits[1])))

author_selectors ==
    <<Cls("author"), Cls("username"), Cls("poster"), Cls("user-name"),
      ClsSub("author"), ClsSub("user"), ClsSub("poster")>>

\* the text _extract_author hands to _anonymize_username, None if none
AuthorText(tree, i) == FirstText(tree, i, author_selectors)

\* _extract_author
ExtractAuthor(tree, i) ==
    IF AuthorText(tree, i) = None THEN None
    ELSE AnonymizeUsername(AuthorText(tree, i))

time_selectors ==
    <<Cls("timestamp"), Cls("date"), Cls("time"), Cls("posted-date"),
      ClsSub("time"), ClsSub("date"), Tag("time")>>

\* _extract_timestamp
ExtractTimestamp(tree, i, t) ==
    LET hits == SelectSeq(time_selectors, LAMBDA s :
                    LET e == SelectOne(tree, i, s)
                    IN  /\ e # 0
                        /\ \/ tree[e].attrs["datetime"] # ""
                           \/ tree[e].attrs["title"] # ""
                           \/ Strip(GetText(tree, e)) # "")
    IN  IF hits = <<>> THEN Ok(None)
        ELSE LET e == SelectOne(tree, i, hits[1])
             IN  IF tree[e].attrs["datetime"] # ""
                 THEN Ok(tree[e].attrs["datetime"])
                 ELSE IF tree[e].attrs["title"] # ""
                 THEN Ok(tree[e].attrs["title"])
                 ELSE ParseRelativeTime(Strip(GetText(tree, e)), t)

\* _clean_content_element: three passes of find_all + decompose
CleanContentElement(tree, e) ==
    LET t1 == Decompose(tree, FindAllClass(tree, e, {"quote", "quoted"}))
        t2 == Decompose(t1, FindAllClass(t1, e, {"signature", "sig"}))
    IN  Decompose(t2, FindAllClass(t2, e, {"edit", "modified"}))

content_selectors ==
    <<Cls("content"), Cls("message-content"), Cls("post-content"),
      Cls("body"), ClsSub("content"), ClsSub("message"), ClsSub("body")>>

MinContent == 10

RECURSIVE ContentFrom(_, _, _)
\* the selector loop of _extract_content from selector k on, and its
\* fallback; the tree changes as matched elements are cleaned
ContentFrom(tree, i, k) ==
    IF k > Len(content_selectors)
    THEN LET content == Strip(GetText(tree, i))
         IN  [tree |-> tree,
              val |-> IF Len(content) > MinContent THEN content ELSE None]
    ELSE LET e == SelectOne(tree, i, content_selectors[k])
         IN  IF e = 0 THEN ContentFrom(tree, i, k + 1)
             ELSE LET cleaned == CleanContentElement(tree, e)
                      content == Strip(GetText(cleaned, e))
                  IN  IF content # "" /\ Len(content) > MinContent
                      THEN [tree |-> cleaned, val |-> content]
                      ELSE ContentFrom(cleaned, i, k + 1)

\* a plausible slip: the whole-text fallback takes "at least 10"
ExtractContent_FallbackAtLeast(tree, i) ==
    LET found == ContentFrom(tree, i, 1)
        content == Strip(GetText(found.tree, i))
    IN  IF found.val = None /\ Len(content) >= MinContent
        THEN [tree |-> found.tree, val |-> content]
        ELSE found

\* a plausible slip: the first selector that matches decides; when its
\* cleaned text is too short the whole text is taken
ExtractContent_FirstMatch(tree, i) ==
    LET hits == SelectSeq(content_selectors, LAMBDA s : SelectOne(tree, i, s) # 0)
        e == IF hits = <<>> THEN 0 ELSE SelectOne(tree, i, hits[1])
        cleaned == IF e = 0 THEN tree ELSE CleanContentElement(tree, e)
        content == IF e = 0 THEN "" ELSE Strip(GetText(cleaned, e))
        whole == Strip(GetText(cleaned, i))
    IN  [tree |-> cleaned,
         val |-> IF Len(content) > MinContent THEN content
                 ELSE IF Len(whole) > MinContent THEN whole ELSE None]

\* _extract_content
ExtractContent(tree, i) == ContentFrom(tree, i, 1)

title_selectors ==
    <<Cls("title"), Cls("subject"), Cls("topic-title"),
      Tag("h1"), Tag("h2"), Tag("h3"), ClsSub("title"), ClsSub("subject")>>

\* _extract_title
ExtractTitle(tree, i) == FirstText(tree, i, title_selectors)

\* a plausible slip: the first element a selector matches decides, with or
\* without digits
ExtractCount_FirstMatch(tree, i, selectors) ==
    LET hits == SelectSeq(selectors, LAMBDA s : SelectOne(tree, i, s) # 0)
    IN  IF hits = <<>> THEN 0
        ELSE ToInt(FirstDigits(GetText(tree, SelectOne(tree, i, hits[1]))))

\* the loop shared by _extract_replies_count and _extract_views_count
ExtractCount(tree, i, selectors) ==
    LET hits == SelectSeq(selectors, LAMBDA s :
                    /\ SelectOne(tree, i, s) # 0
                    /\ FirstDigits(GetText(tree, SelectOne(tree, i, s))) # "")
    IN  IF hits = <<>> THEN 0
        ELSE ToInt(FirstDigits(GetText(tree, SelectOne(tree, i, hits[1]))))

reply_selectors == <<Cls("replies"), Cls("reply-count"), ClsSub("replies")>>
view_selectors == <<Cls("views"), Cls("view-count"), ClsSub("views")>>

\* _extract_replies_count
ExtractRepliesCount(tree, i) == ExtractCount(tree, i, reply_selectors)

\* _extract_views_count
ExtractViewsCount(tree, i) == ExtractCount(tree, i, view_selectors)

tag_selectors == <<Cls("tag"), Cls("category"), Cls("label"), ClsSub("tag")>>

RECURSIVE TextsOf(_, _)
\* the non-empty stripped texts of the elements es, in order
TextsOf(tree, es) ==
    IF es = <<>> THEN <<>>
    ELSE LET text == Strip(GetText(tree, es[1]))
         IN  (IF text # "" THEN <<text>> ELSE <<>>) \o TextsOf(tree, Tail(es))

RECURSIVE TagsFrom(_, _, _)
TagsFrom(tree, i, k) ==
    IF k > Len(tag_selectors) THEN <<>>
    ELSE TextsOf(tree, Select(tree, i, tag_selectors[k]))
         \o TagsFrom(tree, i, k + 1)

\* _extract_tags
ExtractTags(tree, i) == TagsFrom(tree, i, 1)

\* _classify_link
ClassifyLink(url) ==
    LET url_lower == Lower(url)
    IN  IF SearchAny({"amazon", "ebay", "shop"}, url_lower) THEN "product"
        ELSE IF SearchAny({".pdf", ".doc", ".docx"}, url_lower) THEN "document"
        ELSE IF SearchAny({"youtube", "vimeo"}, url_lower) THEN "video"
        ELSE IF StartsWith(url_lower, "mailto:") THEN "email"
        ELSE "external"

RECURSIVE LinksOf(_, _)
LinksOf(tree, as) ==
    IF as = <<>> THEN <<>>
    ELSE LET href == tree[as[1]].attrs["href"]
             text == Strip(GetText(tree, as[1]))
         IN  (IF href # "" /\ text # ""
              THEN <<[url |-> href, text |-> text, type |-> ClassifyLink(href)]>>
              ELSE <<>>) \o LinksOf(tree, Tail(as))

\* _extract_links
ExtractLinks(tree, i) == LinksOf(tree, Select(tree, i, Tag("a")))

---------------------------------------------------------------------------
(* Content Classifier                                                      *)

question_indicators ==
    <<"?", "how to", "what is", "where can", "when should",
      "why does", "help", "advice", "suggestions", "recommendations">>

answer_indicators ==
    <<"try this", "i suggest", "in my experience", "you should",
      "i recommend", "what worked for me", "here's what">>

resource_patterns ==
    <<"book", "website", "article", "doctor", "specialist",
      "product", "service", "app", "tool", "resource">>

emotional_indicators ==
    <<"worried", "scared", "excited", "frustrated", "happy",
      "sad", "anxious", "grateful", "confused", "hopeful">>

\* re.search(pattern, content, re.IGNORECASE) for a literal pattern
SearchIgnoreCase(pattern, content) ==
    Contains(Lower(content), Lower(pattern))

\* _is_question
IsQuestion(content) ==
    \E k \in DOMAIN question_indicators :
        SearchIgnoreCase(question_indicators[k], content)

\* a plausible slip: _is_answer copied from _is_question, patterns and all
IsAnswer_Copied(content) == IsQuestion(content)

\* _is_answer
IsAnswer(content) ==
    \E k \in DOMAIN answer_indicators :
        SearchIgnoreCase(answer_indicators[k], content)

\* a plausible slip: the loop returns at the first pattern found
ExtractSentimentIndicators_FirstOnly(content) ==
    LET found == SelectSeq(emotional_indicators,
                           LAMBDA pattern : SearchIgnoreCase(pattern, content))
    IN  IF found = <<>> THEN <<>> ELSE <<found[1]>>

\* _extract_sentiment_indicators
ExtractSentimentIndicators(content) ==
    SelectSeq(emotional_indicators,
              LAMBDA pattern : SearchIgnoreCase(pattern, content))

\* the regular expression class \w
IsWordChar(c) == IsLowerChar(c) \/ IsUpperChar(c) \/ IsDigit(c) \/ c = "_"

RECURSIVE WordEnd(_, _)
\* the last position of the run of \w characters that holds position i
WordEnd(s, i) ==
    IF i < Len(s) /\ IsWordChar(Ch(s, i + 1)) THEN WordEnd(s, i + 1) ELSE i

RECURSIVE WordsFrom(_, _)
WordsFrom(s, i) ==
    IF i > Len(s) THEN <<>>
    ELSE IF ~IsWordChar(Ch(s, i)) THEN WordsFrom(s, i + 1)
    ELSE <<SubSeq(s, i, WordEnd(s, i))>> \o WordsFrom(s, WordEnd(s, i) + 1)

\* the maximal runs of \w characters of s, in order
Words(s) == WordsFrom(s, 1)

\* _extract_resource_mentions: the matches of \b\w*<pattern>\w*\b are the
\* whole words holding the pattern; set() keeps each word once
ExtractResourceMentions(content) ==
    LET words == Words(content)
    IN  {words[n] : n \in
            {m \in DOMAIN words :
                \E k \in DOMAIN resource_patterns :
                    SearchIgnoreCase(resource_patterns[k], words[m])}}

stop_words ==
    {"the", "and", "for", "are", "but", "not", "you", "all", "can", "had",
     "her", "was", "one", "our", "out", "day", "get", "has", "him", "his",
     "how", "its", "may", "new", "now", "old", "see", "two", "who", "boy",
     "did", "she", "use", "way", "oil", "sit", "set", "run", "eat"}

MinToken == 3
MinKeyword == 3
TopKeywords == 10

IsLetter(c) == IsLowerChar(c) \/ IsUpperChar(c)

\* re.findall(r'\b[a-zA-Z]{3,}\b', s): the words of letters only, in order
LetterTokens(s) ==
    SelectSeq(Words(s), LAMBDA w :
        /\ Len(w) >= MinToken
        /\ \A k \in 1..Len(w) : IsLetter(Ch(w, k)))

\* number of occurrences of word in the sequence words
CountOf(words, word) == Cardinality({k \in DOMAIN words : words[k] = word})

RECURSIVE MostCommon(_, _, _)
\* Counter(words).most_common(n): by count, highest first; words of equal
\* count in the order of their first occurrence
MostCommon(words, left, n) ==
    IF n = 0 \/ left = {} THEN <<>>
    ELSE LET first(w) == CHOOSE k \in DOMAIN words :
                            /\ words[k] = w
                            /\ \A j \in 1..(k - 1) : words[j] # w
             best == CHOOSE w \in left : \A v \in left :
                         \/ CountOf(words, w) > CountOf(words, v)
                         \/ /\ CountOf(words, w) = CountOf(words, v)
                            /\ first(w) <= first(v)
         IN  <<best>> \o MostCommon(words, left \ {best}, n - 1)

\* a plausible slip: the words are ranked in the order of their first
\* occurrence, whatever their count
ExtractKeywords_Unranked(content) ==
    LET words == LetterTokens(Lower(content))
        keywords == SelectSeq(words, LAMBDA word :
                        word \notin stop_words /\ Len(word) > MinKeyword)
        firsts == SelectSeq([k \in DOMAIN keywords |-> k], LAMBDA k :
                      \A j \in 1..(k - 1) : keywords[j] # keywords[k])
    IN  [k \in 1..(IF Len(firsts) < TopKeywords THEN Len(firsts)
                   ELSE TopKeywords) |-> keywords[firsts[k]]]

\* _extract_keywords
ExtractKeywords(content) ==
    LET words == LetterTokens(Lower(content))
        keywords == SelectSeq(words, LAMBDA word :
                        word \notin stop_words /\ Len(word) > MinKeyword)
    IN  MostCommon(keywords, {keywords[k] : k \in DOMAIN keywords},
                   TopKeywords)

\* _analyze_content
AnalyzeContent(content) ==
    LET content_lower == Lower(content)
    IN  [is_question |-> IsQuestion(content_lower),
         is_answer |-> IsAnswer(content_lower),
         sentiment_indicators |-> ExtractSentimentIndicators(content_lower),
         resource_mentions |-> ExtractResourceMentions(content_lower),
         keywords |-> ExtractKeywords(content)]

---------------------------------------------------------------------------
(* Record assembly                                                         *)

MinRecordContent == 20

\* the record _extract_post_data builds before validation, given the
\* timestamp ts and the content c (with the tree as cleaned for c)
PostRecord(tree, i, sec, t, ts, c) ==
    LET analysis == IF c # None THEN AnalyzeContent(c)
                    ELSE [is_question |-> FALSE, is_answer |-> FALSE,
                          sentiment_indicators |-> <<>>,
                          resource_mentions |-> {}, keywords |-> <<>>]
    IN  [section |-> sec,
         extracted_at |-> IsoFormat(t),
         post_id |-> ExtractPostId(tree, i),
         author |-> ExtractAuthor(tree, i),
         timestamp |-> ts,
         content |-> c,
         title |-> ExtractTitle(tree, i),
         replies_count |-> ExtractRepliesCount(tree, i),
         views_count |-> ExtractViewsCount(tree, i),
         tags |-> ExtractTags(tree, i),
         links |-> ExtractLinks(tree, i),
         is_question |-> analysis.is_question,
         is_answer |-> analysis.is_answer,
         sentiment_indicators |-> analysis.sentiment_indicators,
         resource_mentions |-> analysis.resource_mentions,
         keywords |-> analysis.keywords]

\* a plausible slip: the limit taken as "at least 20"
Meaningful_AtLeast(content) ==
    content # None /\ Len(Strip(content)) >= MinRecordContent

\* "only return posts with meaningful content"
Meaningful(content) ==
    content # None /\ Len(Strip(content)) > MinRecordContent

\* a plausible slip: content is extracted (and its element cleaned) before
\* the timestamp, so a fragment that raises has already changed the tree
ExtractPostData_CleanFirst(tree, i, sec, t) ==
    IF ~tree[i].alive
    THEN [tree |-> tree, out |-> <<>>, caught |-> TRUE]
    ELSE IF ExtractTimestamp(tree, i, t).exc
    THEN [tree |-> ExtractContent(tree, i).tree, out |-> <<>>, caught |-> TRUE]
    ELSE Bind(ExtractContent(tree, i), LAMBDA c :
             [tree |-> c.tree,
              out |-> IF Meaningful(c.val)
                      THEN <<[PostRecord(c.tree, i, sec, t,
                                         ExtractTimestamp(tree, i, t).val, c.val)
                                 EXCEPT !.post_id = ExtractPostId(tree, i),
                                        !.author = ExtractAuthor(tree, i)]>>
                      ELSE <<>>,
              caught |-> FALSE])

\* _extract_post_data: the tree it leaves, what it returns (<<>> for None,
\* else the one record), and whether an exception was caught and logged on
\* the way.  A decomposed element has lost its attributes, so the first
\* attribute lookup on it raises; post_id and author are read from the tree
\* as it is on entry, the fields after content from the tree as cleaned.
ExtractPostData(tree, i, sec, t) ==
    IF ~tree[i].alive
    THEN [tree |-> tree, out |-> <<>>, caught |-> TRUE]
    ELSE LET ts == ExtractTimestamp(tree, i, t)
         IN  IF ts.exc
             THEN [tree |-> tree, out |-> <<>>, caught |-> TRUE]
             ELSE LET c == ExtractContent(tree, i)
                      post_data == [PostRecord(c.tree, i, sec, t, ts.val, c.val)
                                       EXCEPT !.post_id = ExtractPostId(tree, i),
                                              !.author = ExtractAuthor(tree, i)]
                  IN  [tree |-> c.tree,
                       out |-> IF Meaningful(c.val)
                               THEN <<post_data>> ELSE <<>>,
                       caught |-> FALSE]

---------------------------------------------------------------------------
(* Aggregator (src/utils.py)                                               *)

\* Scores and averages are exact fractions num/den with den > 0.
Frac(n, d) == [num |-> n, den |-> d]
FracLess(a, b) == a.num * b.den < b.num * a.den
FracEq(a, b) == a.num * b.den = b.num * a.den

QuestionBonus == 10
AnswerBonus == 5
ResourceBonus == 2
MaxScore == 100

\* a plausible slip: the score is returned without the cap
CalculateEngagementScore_NoCap(post_data) ==
    LET base == IF post_data.views_count > 0
                THEN Frac(post_data.replies_count * 100, post_data.views_count)
                ELSE Frac(0, 1)
        bonus == (IF post_data.is_question THEN QuestionBonus ELSE 0)
                 + (IF post_data.is_answer THEN AnswerBonus ELSE 0)
                 + Cardinality(post_data.resource_mentions) * ResourceBonus
    IN  Frac(base.num + bonus * base.den, base.den)

\* a plausible slip: an answer earns the bonus of a question
CalculateEngagementScore_SameBonus(post_data) ==
    LET base == IF post_data.views_count > 0
                THEN Frac(post_data.replies_count * 100, post_data.views_count)
                ELSE Frac(0, 1)
        bonus == (IF post_data.is_question THEN QuestionBonus ELSE 0)
                 + (IF post_data.is_answer THEN QuestionBonus ELSE 0)
                 + Cardinality(post_data.resource_mentions) * ResourceBonus
        engagement_ == Frac(base.num + bonus * base.den, base.den)
    IN  IF FracLess(Frac(MaxScore, 1), engagement_)
        THEN Frac(MaxScore, 1) ELSE engagement_

\* calculate_engagement_score (its except branch needs a record whose
\* counts are not numbers; extraction always stores integers)
CalculateEngagementScore(post_data) ==
    LET replies == post_data.replies_count
        views == post_data.views_count
        base == IF views > 0 THEN Frac(replies * 100, views) ELSE Frac(0, 1)
        bonus == (IF post_data.is_question THEN QuestionBonus ELSE 0)
                 + (IF post_data.is_answer THEN AnswerBonus ELSE 0)
                 + Cardinality(post_data.resource_mentions) * ResourceBonus
        engagement_ == Frac(base.num + bonus * base.den, base.den)
    IN  IF FracLess(Frac(MaxScore, 1), engagement_)
        THEN Frac(MaxScore, 1) ELSE engagement_

product_keywords ==
    <<"product", "buy", "purchase", "recommend", "brand", "quality",
      "where to find", "best", "review", "comparison">>
service_keywords ==
    <<"service", "help", "professional", "expert", "consultation",
      "advice", "guidance", "support", "therapy", "counseling">>
info_keywords ==
    <<"information", "learn", "understand", "explain", "guide",
      "tutorial", "how to", "what is", "resource", "book">>
community_keywords ==
    <<"group", "community", "support", "meet", "connect",
      "share", "experience", "similar", "together">>

\* sum(1 for keyword in keywords if keyword in text)
KeywordHits(keywords, text) ==
    Cardinality({k \in DOMAIN keywords : Contains(text, keywords[k])})

\* the keys of the scores dict, in insertion order
categories == <<"product", "service", "information", "community">>

\* the scores dict of categorize_business_opportunity
OpportunityScores(post_data) ==
    LET text_to_check == Lower(post_data.content) \o " " \o Lower(post_data.title)
    IN  [c \in {categories[k] : k \in DOMAIN categories} |->
            CASE c = "product" -> KeywordHits(product_keywords, text_to_check)
              [] c = "service" -> KeywordHits(service_keywords, text_to_check)
              [] c = "information" -> KeywordHits(info_keywords, text_to_check)
              [] c = "community" -> KeywordHits(community_keywords, text_to_check)]

\* a plausible slip: of the categories with the highest score the last
\* one is taken
CategorizeBusinessOpportunity_LastMax(post_data) ==
    IF post_data.content = None \/ post_data.title = None
    THEN Raise("AttributeError")
    ELSE LET scores == OpportunityScores(post_data)
             k == CHOOSE a \in DOMAIN categories :
                     /\ \A b \in DOMAIN categories :
                            scores[categories[a]] >= scores[categories[b]]
                     /\ \A b \in (a + 1)..Len(categories) :
                            scores[categories[b]] < scores[categories[a]]
             sec == post_data.section
         IN  IF scores[categories[k]] = 0
             THEN IF Contains(sec, "pregnancy") \/ Contains(sec, "childbirth")
                  THEN Ok("health_service")
                  ELSE IF Contains(sec, "married") THEN Ok("relationship_service")
                  ELSE IF Contains(sec, "infertility") THEN Ok("medical_service")
                  ELSE Ok("general")
             ELSE Ok(categories[k])

\* a plausible slip: the section rules are tried in another order
CategorizeBusinessOpportunity_InfertilityFirst(post_data) ==
    IF post_data.content = None \/ post_data.title = None
    THEN Raise("AttributeError")
    ELSE LET scores == OpportunityScores(post_data)
             k == CHOOSE a \in DOMAIN categories :
                     /\ \A b \in DOMAIN categories :
                            scores[categories[a]] >= scores[categories[b]]
                     /\ \A b \in 1..(a - 1) :
                            scores[categories[b]] < scores[categories[a]]
             sec == post_data.section
         IN  IF scores[categories[k]] = 0
             THEN IF Contains(sec, "infertility") THEN Ok("medical_service")
                  ELSE IF Contains(sec, "married") THEN Ok("relationship_service")
                  ELSE IF Contains(sec, "pregnancy") \/ Contains(sec, "childbirth")
                  THEN Ok("health_service")
                  ELSE Ok("general")
             ELSE Ok(categories[k])

\* categorize_business_opportunity: the record always has the keys content
\* and title, so .get() returns the stored value, and None has no lower()
CategorizeBusinessOpportunity(post_data) ==
    IF post_data.content = None \/ post_data.title = None
    THEN Raise("AttributeError")
    ELSE LET scores == OpportunityScores(post_data)
             k == CHOOSE a \in DOMAIN categories :
                     /\ \A b \in DOMAIN categories :
                            scores[categories[a]] >= scores[categories[b]]
                     /\ \A b \in 1..(a - 1) :
                            scores[categories[b]] < scores[categories[a]]
             max_category == categories[k]
             sec == post_data.section
         IN  IF scores[max_category] = 0
             THEN IF Contains(sec, "pregnancy") \/ Contains(sec, "childbirth")
                  THEN Ok("health_service")
                  ELSE IF Contains(sec, "married") THEN Ok("relationship_service")
                  ELSE IF Contains(sec, "infertility") THEN Ok("medical_service")
                  ELSE Ok("general")
             ELSE Ok(max_category)

RECURSIVE ReplaceZ(_, _)
ReplaceZ(s, i) ==
    IF i > Len(s) THEN ""
    ELSE (IF Ch(s, i) = "Z" THEN "+00:00" ELSE Ch(s, i)) \o ReplaceZ(s, i + 1)

AllDigits(s) == \A k \in 1..Len(s) : IsDigit(Ch(s, k))

IsLeap(y) == (y % 4 = 0 /\ y % 100 # 0) \/ y % 400 = 0

DaysInMonth(y, m) ==
    IF m = 2 THEN (IF IsLeap(y) THEN 29 ELSE 28)
    ELSE IF m \in {4, 6, 9, 11} THEN 30 ELSE 31

\* HH:MM or HH:MM:SS
IsClock(s) ==
    /\ Len(s) \in {5, 8}
    /\ AllDigits(SubSeq(s, 1, 2)) /\ Ch(s, 3) = ":" /\ AllDigits(SubSeq(s, 4, 5))
    /\ ToInt(SubSeq(s, 1, 2)) < 24 /\ ToInt(SubSeq(s, 4, 5)) < 60
    /\ Len(s) = 8 =>
          Ch(s, 6) = ":" /\ AllDigits(SubSeq(s, 7, 8)) /\ ToInt(SubSeq(s, 7, 8)) < 60

\* YYYY-MM-DD of a real day
IsDate(s) ==
    /\ Len(s) = 10
    /\ AllDigits(SubSeq(s, 1, 4)) /\ Ch(s, 5) = "-"
    /\ AllDigits(SubSeq(s, 6, 7)) /\ Ch(s, 8) = "-"
    /\ AllDigits(SubSeq(s, 9, 10))
    /\ ToInt(SubSeq(s, 1, 4)) >= 1
    /\ ToInt(SubSeq(s, 6, 7)) \in 1..12
    /\ ToInt(SubSeq(s, 9, 10)) \in
          1..DaysInMonth(ToInt(SubSeq(s, 1, 4)), ToInt(SubSeq(s, 6, 7)))

\* the time part after the separator: a clock, then nothing or +HH:MM / -HH:MM
IsTimePart(s) ==
    \/ IsClock(s)
    \/ /\ Len(s) \in {11, 14}
       /\ IsClock(SubSeq(s, 1, Len(s) - 6))
       /\ Ch(s, Len(s) - 5) \in {"+", "-"}
       /\ IsClock(SubSeq(s, Len(s) - 4, Len(s)))

\* whether datetime.fromisoformat(s) returns: a date, or a date, any one
\* separator character and a time part.  (Fractional seconds and offsets
\* with seconds, which it accepts too, occur in no page of the model.)
IsIsoFormat(s) ==
    \/ IsDate(s)
    \/ /\ Len(s) >= 12
       /\ IsDate(SubSeq(s, 1, 10))
       /\ IsTimePart(SubSeq(s, 12, Len(s)))

\* dt.hour
IsoHour(s) == IF Len(s) = 10 THEN 0 ELSE ToInt(SubSeq(s, 12, 13))

day_names == <<"Sunday", "Monday", "Tuesday", "Wednesday", "Thursday",
               "Friday", "Saturday">>
month_offsets == <<0, 3, 2, 5, 0, 3, 5, 1, 4, 6, 2, 4>>

\* dt.strftime('%A')
IsoDay(s) ==
    LET y == ToInt(SubSeq(s, 1, 4))
        m == ToInt(SubSeq(s, 6, 7))
        d == ToInt(SubSeq(s, 9, 10))
        yy == IF m < 3 THEN y - 1 ELSE y
    IN  day_names[((yy + (yy \div 4) - (yy \div 100) + (yy \div 400)
                     + month_offsets[m] + d) % 7) + 1]

\* d[k] = d.get(k, 0) + 1
Bump(d, k) ==
    IF k \in DOMAIN d THEN [d EXCEPT ![k] = @ + 1] ELSE d @@ (k :> 1)

EmptyDict == [k \in {} |-> 0]

\* the stats dict as generate_summary_stats creates it
InitialStats ==
    [total_posts |-> 0,
     sections |-> EmptyDict,
     avg_replies |-> Frac(0, 1),
     avg_views |-> Frac(0, 1),
     high_engagement_posts |-> 0,
     questions |-> 0,
     answers |-> 0,
     resource_mentions |-> 0,
     business_opportunities |->
         [c \in {categories[k] : k \in DOMAIN categories} |-> 0],
     posts_by_hour |-> EmptyDict,
     posts_by_day |-> EmptyDict]

RECURSIVE AllPosts(_)
\* all_posts: the posts of every section, in the order of data.items()
AllPosts(d) == IF d = <<>> THEN <<>> ELSE d[1].posts \o AllPosts(Tail(d))

RECURSIVE SumReplies(_)
\* sum(post.get('replies_count', 0) for post in all_posts)
SumReplies(ps) ==
    IF ps = <<>> THEN 0 ELSE ps[1].replies_count + SumReplies(Tail(ps))

RECURSIVE SumViews(_)
\* sum(post.get('views_count', 0) for post in all_posts)
SumViews(ps) ==
    IF ps = <<>> THEN 0 ELSE ps[1].views_count + SumViews(Tail(ps))

RECURSIVE SectionCounts(_)
SectionCounts(d) ==
    IF d = <<>> THEN EmptyDict
    ELSE (d[Len(d)].name :> Len(d[Len(d)].posts))
         @@ SectionCounts(SubSeq(d, 1, Len(d) - 1))

HighEngagement == 50

\* generate_summary_stats up to its loop over the posts: the per-section
\* counts, the total and the two averages
StatsHead(d) ==
    LET all_posts == AllPosts(d)
        counted == [InitialStats EXCEPT
                       !.sections = SectionCounts(d),
                       !.total_posts = Len(all_posts)]
    IN  IF all_posts = <<>> THEN counted
        ELSE [counted EXCEPT
                 !.avg_replies =
                     Frac(SumReplies(all_posts), Len(all_posts)),
                 !.avg_views =
                     Frac(SumViews(all_posts), Len(all_posts))]

\* a plausible slip: a score of 50 counts as high engagement
StatsContent_AtLeast(st, post) ==
    [st EXCEPT
        !.questions = IF post.is_question THEN @ + 1 ELSE @,
        !.answers = IF post.is_answer THEN @ + 1 ELSE @,
        !.resource_mentions = @ + Cardinality(post.resource_mentions),
        !.high_engagement_posts =
            IF FracLess(CalculateEngagementScore(post), Frac(HighEngagement, 1))
            THEN @ ELSE @ + 1]

\* the part of the loop body before the opportunity is categorized
StatsContent(st, post) ==
    [st EXCEPT
        !.questions = IF post.is_question THEN @ + 1 ELSE @,
        !.answers = IF post.is_answer THEN @ + 1 ELSE @,
        !.resource_mentions = @ + Cardinality(post.resource_mentions),
        !.high_engagement_posts =
            IF FracLess(Frac(HighEngagement, 1), CalculateEngagementScore(post))
            THEN @ + 1 ELSE @]

\* a plausible slip: the category is counted whether it has a bucket or not
StatsRest_AnyBucket(st, post, opportunity) ==
    LET counted == [st EXCEPT !.business_opportunities = Bump(@, opportunity)]
        stamp == IF post.timestamp = None THEN "" ELSE ReplaceZ(post.timestamp, 1)
    IN  IF post.timestamp # None /\ post.timestamp # "" /\ IsIsoFormat(stamp)
        THEN [counted EXCEPT
                 !.posts_by_hour = Bump(@, IsoHour(stamp)),
                 !.posts_by_day = Bump(@, IsoDay(stamp))]
        ELSE counted

\* a plausible slip: a day that has a bucket already is not counted again
StatsRest_DayOnce(st, post, opportunity) ==
    LET counted == IF opportunity \in DOMAIN st.business_opportunities
                   THEN [st EXCEPT !.business_opportunities[opportunity] = @ + 1]
                   ELSE st
        stamp == IF post.timestamp = None THEN "" ELSE ReplaceZ(post.timestamp, 1)
    IN  IF post.timestamp # None /\ post.timestamp # "" /\ IsIsoFormat(stamp)
        THEN [counted EXCEPT
                 !.posts_by_hour = Bump(@, IsoHour(stamp)),
                 !.posts_by_day = IF IsoDay(stamp) \in DOMAIN @ THEN @
                                  ELSE Bump(@, IsoDay(stamp))]
        ELSE counted

\* the part of the loop body after it, given the category
StatsRest(st, post, opportunity) ==
    LET counted == IF opportunity \in DOMAIN st.business_opportunities
                   THEN [st EXCEPT !.business_opportunities[opportunity] = @ + 1]
                   ELSE st
        stamp == IF post.timestamp = None THEN "" ELSE ReplaceZ(post.timestamp, 1)
    IN  IF post.timestamp # None /\ post.timestamp # "" /\ IsIsoFormat(stamp)
        THEN [counted EXCEPT
                 !.posts_by_hour = Bump(@, IsoHour(stamp)),
                 !.posts_by_day = Bump(@, IsoDay(stamp))]
        ELSE counted

---------------------------------------------------------------------------
(* Analyzer (src/business_analyzer.py)                                     *)

\* a plausible slip: every row is tagged with the section seen last
LoadRows_LastSection(d) ==
    [k \in DOMAIN AllPosts(d) |->
        [AllPosts(d)[k] EXCEPT !.section = d[Len(d)].name]]

RECURSIVE LoadRows(_)
\* the loop of load_data over self.data.items(): every post is tagged with
\* the key it is stored under and appended to all_posts
LoadRows(d) ==
    IF d = <<>> THEN <<>>
    ELSE [k \in DOMAIN d[1].posts |-> [d[1].posts[k] EXCEPT !.section = d[1].name]]
         \o LoadRows(Tail(d))

\* self.data after the loop of load_data: the posts are the tagged ones
LoadedData(d) ==
    [k \in DOMAIN d |-> [name |-> d[k].name, posts |-> LoadRows(<<d[k]>>)]]

LowReplies == 2
SnippetLength == 150
TopGaps == 10

\* title or content, for the loop body of _identify_resource_gaps
Snippet(post) ==
    LET content == SubSeq(post.content, 1,
                          IF Len(post.content) < SnippetLength
                          THEN Len(post.content) ELSE SnippetLength)
    IN  IF post.title # None /\ post.title # "" THEN post.title ELSE content

\* question_posts['section'].unique(): the sections of the question posts,
\* in the order they are first seen
QuestionSections(rows) ==
    LET questions == SelectSeq(rows, LAMBDA post : post.is_question)
        firsts == SelectSeq([k \in DOMAIN questions |-> k], LAMBDA k :
                      \A j \in 1..(k - 1) :
                          questions[j].section # questions[k].section)
    IN  [k \in DOMAIN firsts |-> questions[firsts[k]].section]

\* the gaps of one section
SectionGaps(rows, sec) ==
    LET low_engagement == SelectSeq(rows, LAMBDA post :
                              /\ post.is_question
                              /\ post.section = sec
                              /\ post.replies_count <= LowReplies)
        found == SelectSeq(low_engagement, LAMBDA post : Snippet(post) # "")
    IN  [k \in 1..(IF Len(found) < TopGaps THEN Len(found) ELSE TopGaps) |->
            Snippet(found[k])]

\* _identify_resource_gaps
ResourceGaps(rows) ==
    [k \in DOMAIN QuestionSections(rows) |->
        [name |-> QuestionSections(rows)[k],
         gaps |-> SectionGaps(rows, QuestionSections(rows)[k])]]

---------------------------------------------------------------------------
(* Inputs: pages, sections, clock                                          *)

MaxFrags == 2
MaxNameLen == 3
MaxCount == 2
MaxMentions == 3
Clock == 15015
MaxSections == 2

\* a text of n characters in w space-separated words
Filler(n, w) == Repeat("aa ", w - 1) \o "aa" \o Repeat("b", n - (3 * w - 1))

Question == "How to choose a pediatrician? I'm so frustrated."
TooShort == "Too short"
Answer == "I recommend this book to all."
Plain == "We went to the park and played."

Post(kids) == Elem("div", <<"post">>, kids)
Content(text) == Elem("div", <<"content">>, Text(text))
Title(text) == Elem("h2", <<>>, Text(text))
Time(text) == Elem("span", <<"time">>, Text(text))
Author(name) == Elem("span", <<"author">>, Text(name))
Replies(text) == Elem("span", <<"replies">>, Text(text))
Views(text) == Elem("span", <<"views">>, Text(text))
Quote(cls, kids) == Elem("blockquote", cls, kids)

\* fragments for record assembly: kept, too short, raising, with and
\* without title, at both sides of the 20-character limit
ExtractFrags ==
    { Post(Title("Doctor visit") \o Content(Question)),
      Post(Content(TooShort)),
      Post(Time("5 minutes ago") \o Content(Question)),
      Post(Content(Filler(MinRecordContent, 3))),
      Post(Content(Filler(MinRecordContent + 1, 3))) }

\* fragments with a timestamp that is kept as it is, fragments that hold
\* a quoted or an inner post
NestedFrags ==
    { Post(Time("Yesterday") \o Title("Books") \o Content(Answer)),
      Post(ElemA("time", <<>>, "datetime", "2024-01-09T08:30:00Z", <<>>)
           \o Title("Park") \o Content(Plain)
           \o Replies("3 replies") \o Views("Views: 4")),
      \* a post whose content quotes another post
      Post(Title("Re: visit") \o
           Elem("div", <<"content">>,
                Text(Answer) \o Quote(<<"quote", "post">>, Content(Question)))),
      \* a raising post that holds a post with a quoted line and no
      \* content element of its own
      Post(Time("2 hours ago") \o
           Elem("div", <<"content">>,
                Text(Plain) \o
                Post(Title("Inner") \o Quote(<<"quote">>, Text(Plain))
                     \o Text(Question)))) }

\* the texts a timestamp element may show
TimeTexts ==
    {"5 minutes ago", "1 minute ago", "2 HOURS AGO", "3 Days Ago",
     "A minute ago", "Yesterday", "2024-01-09T08:30:00", "10 minutes"}

TimeFrags ==
    {Post(Time(t) \o Title("Doctor visit") \o Content(Question)) : t \in TimeTexts}
    \cup {Post(ElemA("span", <<"date">>, "title", "2024-01-09 08:30", Text("2 days ago"))
               \o Title("Doctor visit") \o Content(Question))}

NameChars == {"a", "b", "X"}

RECURSIVE Names(_)
\* the usernames of exactly n characters
Names(n) ==
    IF n = 0 THEN {""}
    ELSE {c \o u : c \in NameChars, u \in Names(n - 1)}

AuthorFrags ==
    {Post(Author(u) \o Title("Doctor visit") \o Content(Question)) :
        u \in UNION {Names(n) : n \in 0..MaxNameLen}}
    \cup {Post(Author(" Sarah ") \o Content(Question)),
          Post(Elem("span", <<"username">>, Text("Rivka")) \o Content(Plain))}

ContentTexts ==
    {Question, Answer, Plain,
     "PLEASE HELP me with the baby",
     "Is this normal for a toddler?",
     "Here's What worked for me: try this app",
     "Any Recommendations or advice from a doctor",
     "So happy and grateful, not worried at all",
     "I want to buy this brand, any expert help",
     "We need more support at home now",
     "Let us learn together at home",
     "We share our experience in a group",
     "Tiny baby naps, baby eats: naps time milk cots bibs toys play walk baby",
     "Use app4kids, see MOMS_group: Moms, moms don't love it",
     "Sadly unhappy: ask a Doctor, my doctor has a Book"}

ContentFrags ==
    {Post(Title("Doctor visit") \o Content(c)) : c \in ContentTexts}
    \cup {\* a short .content element before a .body element
          Post(Content("Hi there") \o Elem("div", <<"body">>, Text(Plain))),
          \* a content element with a quote, a signature and an edit notice
          Post(Elem("div", <<"content">>,
                    Text(Plain) \o Quote(<<"quote">>, Text("old words"))
                    \o Elem("div", <<"signature">>, Text("-- sig"))
                    \o Elem("span", <<"edit">>, Text("edited")))),
          \* a content element that is short once its quote is removed
          Post(Title("A title that is long enough") \o
               Elem("div", <<"content">>,
                    Text("Hi") \o Quote(<<"quoted">>, Text(Plain)))),
          \* content elements of 10 and of 11 characters
          Post(Content(Filler(MinContent, 2))),
          Post(Content(Filler(MinContent + 1, 2)))}

CountFrags ==
    {Post(Title("Doctor visit") \o Content(c)
          \o Replies(ToString(r) \o " replies") \o Views("Views: " \o ToString(v))) :
        r \in 0..MaxCount, v \in 0..MaxCount, c \in {Question, Plain}}
    \cup {Post(Content(Plain) \o Replies("no replies yet")
               \o Elem("span", <<"reply-count">>, Text("5"))
               \o Views("Views: 12, 3 today")),
          Post(Content(Plain) \o Replies("none") \o Views("many")),
          Post(Content(Plain) \o Replies("none") \o Replies("4")
               \o Elem("span", <<"view-count">>, Text("seen 7 times"))),
          Post(Content(Plain) \o Elem("span", <<"reply-count">>, Text("none"))
               \o Elem("span", <<"topic-replies">>, Text("6"))
               \o Views("") \o Elem("span", <<"views-total">>, Text("8")))}

\* fragments under each structural selector, and under none
LocatorFrags ==
    {Elem("div", <<c>>, Title("Doctor visit") \o Content(Question)) :
        c \in {"post", "message", "forum-post", "topic-post",
               "blog-posting", "messages", "thread-item", "entry"}}

Hint(c) == Elem("span", <<c>>, <<>>)

\* elements for the heuristic scan, around its limits
FallbackFrags ==
    { Elem("div", <<"entry">>, Hint("author") \o Hint("date")
                               \o Text(Filler(MinPostText + 1, 2))),
      Elem("div", <<"entry">>, Hint("author") \o Hint("date")
                               \o Text(Filler(MinPostText, 2))),
      Elem("div", <<"entry">>, Hint("author") \o Hint("date")
                               \o Text(Filler(MinPostText - 1, 2))),
      Elem("div", <<"entry">>, Hint("username")
                               \o Text(Filler(MinPostText + 10, MinWords + 1))),
      Elem("div", <<"entry">>, Hint("username")
                               \o Text(Filler(MinPostText + 10, MinWords))),
      Elem("span", <<"entry">>, Hint("author") \o Hint("date") \o Hint("body")
                                \o Text(Filler(MinPostText + 10, MinWords + 1))),
      Elem("article", <<>>, Hint("body")
                            \o Text(Filler(MinPostText + 10, MinWords + 1))),
      Elem("section", <<>>, Text(Filler(MinPostText + 10, MinWords + 1))),
      Elem("section", <<>>,
           Elem("div", <<"entry">>, Hint("author") \o Hint("timestamp")
                                    \o Text(Filler(MinPostText + 1, 2)))) }

\* fragments with a link of each type, with links that fall under two
\* rules, and with anchors that are no links
LinkFrags ==
    {Post(Title("Doctor visit") \o Content(Question)
          \o ElemA("a", <<>>, "href", url, Text("see here"))) :
        url \in {"https://www.Amazon.com/item", "http://shop.org/a.pdf",
                 "http://x.org/guide.PDF", "http://x.org/a.docx",
                 "https://youtube.com/watch", "http://vimeo.com/a.doc",
                 "mailto:a@x.org", "MAILTO:shop@x.org", "http://x.org/page",
                 "http://www.doctors.org/visit", "http://x.org/mailto:"}}
    \cup {Post(Title("Doctor visit") \o Content(Question)
               \o ElemA("a", <<>>, "href", "http://x.org/page", <<>>)),
          Post(Title("Doctor visit") \o Content(Question)
               \o Elem("a", <<>>, Text("see here"))),
          \* two links, the first inside the content element
          Post(Elem("div", <<"content">>,
                    Text(Question)
                    \o ElemA("a", <<>>, "href", "http://x.org/one", Text(" one ")))
               \o ElemA("a", <<>>, "href", "http://x.org/two", Text("two"))),
          \* a link in the signature of the content element
          Post(Elem("div", <<"content">>,
                    Text(Question)
                    \o Elem("div", <<"signature">>,
                            ElemA("a", <<>>, "href", "http://x.org/me",
                                  Text("my page"))))
               \o ElemA("a", <<>>, "href", "http://x.org/two", Text("two")))}

\* fragments without any content element, around the 10-character limit
\* of the whole-text fallback
BareFrags ==
    { Post(Text(Filler(MinContent, 2))),
      Post(Text(Filler(MinContent + 1, 2))),
      Post(Text(Plain)) }

\* fragments with tag, category and label elements
TagFrags ==
    { Post(Content(Plain) \o Elem("span", <<"tag">>, Text("health"))),
      Post(Content(Plain) \o Elem("span", <<"category">>, Text(" baby "))
           \o Elem("span", <<"label">>, Text(""))
           \o Elem("span", <<"hashtag">>, Text("tips"))),
      Post(Content(Plain) \o Elem("span", <<"label">>, Text("sleep"))
           \o Elem("span", <<"category">>, Text("baby"))) }

RECURSIVE Flatten(_)
Flatten(frags) ==
    IF frags = <<>> THEN <<>> ELSE frags[1] \o Flatten(Tail(frags))

\* the pages of at most MaxFrags fragments of one family
PagesOver(frags) ==
    {Flatten(f) : f \in UNION {[1..n -> frags] : n \in 0..MaxFrags}}

\* the pages of one fragment and of two
PairPages(frags) ==
    frags \cup {a \o b : a \in frags, b \in frags}

\* the pages of exactly one fragment
SinglePages(frags) == frags

Pages ==
    PagesOver(ExtractFrags) \cup PagesOver(NestedFrags)
    \cup PairPages(LocatorFrags) \cup PairPages(FallbackFrags)
    \cup PairPages(BareFrags) \cup SinglePages(LinkFrags)
    \cup SinglePages(TagFrags)
    \cup SinglePages(TimeFrags) \cup SinglePages(AuthorFrags)
    \cup SinglePages(ContentFrags) \cup SinglePages(CountFrags)

Sections ==
    {"pregnancy_childbirth", "married_life", "taharas_hamishpacha",
     "infertility_support", "general_discussion",
     \* section_name is any text: a name under two of the fallback rules
     "pregnancy_after_infertility"}

\* the calls of extract_page_data: every page in one section, and the
\* pages that differ in content in every section
Calls ==
    {[page |-> p, section |-> "general_discussion"] : p \in Pages}
    \cup {[page |-> p, section |-> s] :
             p \in SinglePages(ContentFrags) \cup {<<>>}, s \in Sections}

\* records handed to calculate_engagement_score directly
ScoreInputs ==
    [replies_count : 0..MaxCount, views_count : 0..MaxCount,
     is_question : BOOLEAN, is_answer : BOOLEAN,
     resource_mentions : {{ToString(k) : k \in 1..n} : n \in 0..MaxMentions}]

NoRecord == [replies_count |-> 0, views_count |-> 0, is_question |-> FALSE,
             is_answer |-> FALSE, resource_mentions |-> {}]

\* a record as a scraped-data file stores it
StoredPost(sec, title, content, question, replies) ==
    [section |-> sec, extracted_at |-> "2024-01-11T10:15:00",
     post_id |-> None, author |-> None, timestamp |-> None,
     content |-> content, title |-> title,
     replies_count |-> replies, views_count |-> 0,
     tags |-> <<>>, links |-> <<>>,
     is_question |-> question, is_answer |-> FALSE,
     sentiment_indicators |-> <<>>, resource_mentions |-> {},
     keywords |-> <<>>]

\* a text of n characters
LongText(n) ==
    LET ten == "How to?..."
        fifty == ten \o ten \o ten \o ten \o ten
    IN  SubSeq(fifty \o fifty \o fifty \o fifty, 1, n)

\* posts of a section with short texts: questions with and without title,
\* at both sides of the limit of 2 replies, and a post that is no question
ShortPosts(sec) ==
    { StoredPost(sec, "Doctor visit", Question, TRUE, LowReplies),
      StoredPost(sec, "Sleep", Question, TRUE, LowReplies + 1),
      StoredPost(sec, None, "Is this normal for a toddler?", TRUE, 0),
      StoredPost(sec, "Park", Plain, FALSE, 0) }

\* posts with a title or a content around the limit of 150 characters
LongPosts(sec) ==
    { StoredPost(sec, None, LongText(SnippetLength + 1), TRUE, 0),
      StoredPost(sec, None, LongText(SnippetLength), TRUE, 1),
      StoredPost(sec, LongText(SnippetLength + 1), Question, TRUE, LowReplies),
      StoredPost(sec, LongText(SnippetLength), Question, TRUE, 0) }

\* the mappings with one section of at most two posts, with a section of
\* a post after it, and with a section of TopGaps + 1 questions
FilesOver(pool(_)) ==
    { <<[name |-> "married_life", posts |-> ps]>> :
        ps \in {<<>>} \cup {<<a>> : a \in pool("married_life")}
               \cup {<<a, b>> : a, b \in pool("married_life")} }
    \cup { <<[name |-> "pregnancy_childbirth", posts |-> <<a>>],
             [name |-> "married_life", posts |-> <<b>>]>> :
             a \in pool("pregnancy_childbirth"), b \in pool("married_life") }

\* the scraped data generate_summary_stats is called on
ShortFiles == FilesOver(ShortPosts)

\* the scraped-data files the analyzer is started on
LongFiles ==
    FilesOver(LongPosts)
    \cup { <<[name |-> "married_life",
              posts |-> [k \in 1..(TopGaps + 1) |->
                            StoredPost("married_life", None,
                                       Question \o " " \o ToString(k), TRUE, 0)]]>> }

---------------------------------------------------------------------------
(* The state machine                                                       *)

\* BusinessIntelligenceAnalyzer.__init__
InitAnalyzerObject ==
    /\ self_data = None
    /\ df = None
    /\ gaps = None

\* nothing but extraction and aggregation has started
\* no scraper was constructed
NoScraper ==
    /\ session_active = None
    /\ user_agent = None
    /\ request = None
    /\ response = None
    /\ requests_made = None
    /\ outcomes = None
    /\ slept = None
    /\ rotations = None
    /\ failures = None
    /\ frame = None
    /\ all_frame = None
    /\ called = None
    /\ ret = None
    /\ calls = None
    /\ forum = None

InitOthers == InitAnalyzerObject /\ NoScraper

\* a call of extract_page_data(page, section), followed by
\* generate_summary_stats on its result
InitPipeline ==
    /\ \E call \in Calls : page = call.page /\ section = call.section
    /\ now = Clock
    /\ pc = "select"
    /\ soup = page
    /\ sel = 1
    /\ posts = <<>>
    /\ idx = 0
    /\ posts_data = <<>>
    /\ caught = {}
    /\ data = <<>>
    /\ stats = InitialStats
    /\ spos = 0
    /\ engagement = Frac(0, 1)
    /\ score_in = NoRecord
    /\ score_out = Frac(0, 1)
    /\ InitOthers

\* a direct call of calculate_engagement_score(score_in)
InitScore ==
    /\ page = <<>>
    /\ section = "general_discussion"
    /\ now = Clock
    /\ pc = "score"
    /\ soup = <<>>
    /\ sel = 1
    /\ posts = <<>>
    /\ idx = 0
    /\ posts_data = <<>>
    /\ caught = {}
    /\ data = <<>>
    /\ stats = InitialStats
    /\ spos = 0
    /\ engagement = Frac(0, 1)
    /\ score_in \in ScoreInputs
    /\ score_out = Frac(0, 1)
    /\ InitOthers

\* a direct call of generate_summary_stats({})
InitStats ==
    /\ page = <<>>
    /\ section = "general_discussion"
    /\ now = Clock
    /\ pc = "stats"
    /\ soup = <<>>
    /\ sel = 1
    /\ posts = <<>>
    /\ idx = 0
    /\ posts_data = <<>>
    /\ caught = {}
    /\ data = <<>>
    /\ stats = InitialStats
    /\ spos = 0
    /\ engagement = Frac(0, 1)
    /\ score_in = NoRecord
    /\ score_out = Frac(0, 1)
    /\ InitOthers

Init == InitPipeline \/ InitScore \/ InitStats

\* a plausible slip: the break is missing, so the last selector decides
LocateStep_NoBreak(tree, k) ==
    [posts |-> Select(tree, 0, post_selectors[k]),
     next |-> IF k < Len(post_selectors) THEN "select"
              ELSE IF Select(tree, 0, post_selectors[k]) # <<>> THEN "extract"
              ELSE "fallback"]

\* one round of the loop over post_selectors: the matches of selector k,
\* and where the loop goes from there
LocateStep(tree, k) ==
    LET found == Select(tree, 0, post_selectors[k])
    IN  [posts |-> found,
         next |-> IF found # <<>> THEN "extract"
                  ELSE IF k < Len(post_selectors) THEN "select"
                  ELSE "fallback"]

TrySelector ==
    /\ pc = "select"
    /\ Bind(LocateStep(soup, sel), LAMBDA step :
           /\ posts' = step.posts
           /\ pc' = step.next
           /\ sel' = IF step.next = "select" THEN sel + 1 ELSE sel)
    /\ UNCHANGED <<page, section, now, soup, idx, posts_data, caught, data,
                   stats, spos, engagement, score_in, score_out>>
    /\ UNCHANGED others

Fallback ==
    /\ pc = "fallback"
    /\ posts' = FindPostsFallback(soup)
    /\ pc' = "extract"
    /\ UNCHANGED <<page, section, now, soup, sel, idx, posts_data, caught,
                   data, stats, spos, engagement, score_in, score_out>>
    /\ UNCHANGED others

\* one round of the loop over posts.  _extract_post_data catches what its
\* body raises, so the try of extract_page_data has nothing left to catch.
ExtractPost ==
    /\ pc = "extract"
    /\ idx < Len(posts)
    /\ Bind(ExtractPostData(soup, posts[idx + 1], section, now), LAMBDA r :
           /\ soup' = r.tree
           /\ posts_data' = posts_data \o r.out
           /\ caught' = IF r.caught THEN caught \cup {idx + 1} ELSE caught)
    /\ idx' = idx + 1
    /\ UNCHANGED <<page, section, now, pc, sel, posts, data, stats, spos,
                   engagement, score_in, score_out>>
    /\ UNCHANGED others

\* return posts_data; the caller keys it by section
ReturnPosts ==
    /\ pc = "extract"
    /\ idx = Len(posts)
    /\ data' = data \o <<[name |-> section, posts |-> posts_data]>>
    /\ pc' = "stats"
    /\ UNCHANGED <<page, section, now, soup, sel, posts, idx, posts_data,
                   caught, stats, spos, engagement, score_in, score_out>>
    /\ UNCHANGED others

\* the caller's loop over the sections, in the order of FORUM_SECTIONS:
\* the page of the next section is extracted before the statistics are made
NextSection ==
    /\ pc = "stats"
    /\ Len(data) < MaxSections
    /\ LET order == <<"pregnancy_childbirth", "married_life",
                      "taharas_hamishpacha", "infertility_support",
                      "general_discussion">>
       IN  /\ Len(data) < Len(order)
           /\ \A k \in DOMAIN data : data[k].name = order[k]
           /\ section' = order[Len(data) + 1]
    /\ page' \in {<<>>} \cup SinglePages(NestedFrags)
    /\ soup' = page'
    /\ pc' = "select"
    /\ sel' = 1
    /\ posts' = <<>>
    /\ idx' = 0
    /\ posts_data' = <<>>
    /\ caught' = {}
    /\ UNCHANGED <<now, data, stats, spos, engagement, score_in, score_out>>
    /\ UNCHANGED others

\* generate_summary_stats up to its loop
StatsBegin ==
    /\ pc = "stats"
    /\ stats' = StatsHead(data)
    /\ spos' = 0
    /\ pc' = IF AllPosts(data) = <<>> THEN "done" ELSE "fold"
    /\ UNCHANGED <<page, section, now, soup, sel, posts, idx, posts_data,
                   caught, data, engagement, score_in, score_out>>
    /\ UNCHANGED others

\* one round of its loop; an exception of categorize_business_opportunity
\* is not caught and leaves generate_summary_stats
StatsPost ==
    /\ pc = "fold"
    /\ spos < Len(AllPosts(data))
    /\ Bind(AllPosts(data)[spos + 1], LAMBDA post :
         Bind(CategorizeBusinessOpportunity(post), LAMBDA opportunity :
           /\ engagement' = CalculateEngagementScore(post)
           /\ IF opportunity.exc
              THEN /\ stats' = StatsContent(stats, post)
                   /\ pc' = "raised"
                   /\ spos' = spos
              ELSE /\ stats' = StatsRest(StatsContent(stats, post), post,
                                         opportunity.val)
                   /\ pc' = pc
                   /\ spos' = spos + 1))
    /\ UNCHANGED <<page, section, now, soup, sel, posts, idx, posts_data,
                   caught, data, score_in, score_out>>
    /\ UNCHANGED others

StatsReturn ==
    /\ pc = "fold"
    /\ spos = Len(AllPosts(data))
    /\ pc' = "done"
    /\ UNCHANGED <<page, section, now, soup, sel, posts, idx, posts_data,
                   caught, data, stats, spos, engagement, score_in, score_out>>
    /\ UNCHANGED others

Score ==
    /\ pc = "score"
    /\ score_out' = CalculateEngagementScore(score_in)
    /\ pc' = "scored"
    /\ UNCHANGED <<page, section, now, soup, sel, posts, idx, posts_data,
                   caught, data, stats, spos, engagement, score_in>>
    /\ UNCHANGED others

\* load_data on the file save_data wrote: json.dump and json.load keep
\* strings, numbers, booleans, None, lists and dicts as they are
LoadData ==
    /\ pc \in {"done", "raised", "file"}
    /\ self_data' = LoadedData(data)
    /\ df' = LoadRows(data)
    /\ pc' = "loaded"
    /\ UNCHANGED <<page, section, now, soup, sel, posts, idx, posts_data,
                   caught, data, stats, spos, engagement, score_in, score_out,
                   gaps>>
    /\ UNCHANGED scraper_vars

\* analyze_market_opportunities returns {} for an empty frame and calls
\* _identify_resource_gaps otherwise
IdentifyResourceGaps ==
    /\ pc = "loaded"
    /\ gaps' = IF df = <<>> THEN <<>> ELSE ResourceGaps(df)
    /\ pc' = "analyzed"
    /\ UNCHANGED <<page, section, now, soup, sel, posts, idx, posts_data,
                   caught, data, stats, spos, engagement, score_in, score_out,
                   self_data, df>>
    /\ UNCHANGED scraper_vars

Next ==
    \/ TrySelector
    \/ Fallback
    \/ ExtractPost
    \/ ReturnPosts
    \/ NextSection
    \/ StatsBegin
    \/ StatsPost
    \/ StatsReturn
    \/ Score

Spec == Init /\ [][Next]_vars

\* the aggregator on scraped data, then the analyzer on the saved file; or
\* the analyzer alone, started on a file
InitAnalyzer ==
    /\ \/ pc = "stats" /\ data \in ShortFiles
       \/ pc = "file" /\ data \in LongFiles
    /\ page = <<>>
    /\ section = "general_discussion"
    /\ now = Clock
    /\ soup = <<>>
    /\ sel = 1
    /\ posts = <<>>
    /\ idx = 0
    /\ posts_data = <<>>
    /\ caught = {}
    /\ stats = InitialStats
    /\ spos = 0
    /\ engagement = Frac(0, 1)
    /\ score_in = NoRecord
    /\ score_out = Frac(0, 1)
    /\ InitOthers

NextAnalyzer ==
    \/ StatsBegin
    \/ StatsPost
    \/ StatsReturn
    \/ LoadData
    \/ IdentifyResourceGaps

SpecAnalyzer == InitAnalyzer /\ [][NextAnalyzer]_vars

---------------------------------------------------------------------------
(* Scraper (src/scraper.py, src/config.py)                                 *)

BASE_URL == "https://www.imamother.com"
LOGIN_URL == BASE_URL \o "/login"

\* ScrapingConfig.FORUM_SECTIONS, in the order of the dict
FORUM_SECTIONS ==
    << [name |-> "pregnancy_childbirth", path |-> "/forum/pregnancy-childbirth"],
       [name |-> "married_life", path |-> "/forum/married-life"],
       [name |-> "taharas_hamishpacha", path |-> "/forum/taharas-hamishpacha"],
       [name |-> "infertility_support", path |-> "/forum/infertility-support"],
       [name |-> "general_discussion", path |-> "/forum/general-discussion"] >>

SectionNames == {FORUM_SECTIONS[k].name : k \in DOMAIN FORUM_SECTIONS}

SectionPath(name) ==
    FORUM_SECTIONS[CHOOSE k \in DOMAIN FORUM_SECTIONS :
                       FORUM_SECTIONS[k].name = name].path

MAX_RETRIES == 3
RETRY_DELAY == 5
MAX_PAGES_PER_SECTION == 50
MAX_POSTS_PER_PAGE == 100

\* ScrapingConfig.USER_AGENTS, each by browser and platform
USER_AGENTS == {"Chrome/Windows", "Firefox/Windows", "Safari/Mac", "Chrome/Linux"}

\* urljoin(base, path) for a path that starts with "/"
UrlJoin(base, path) == base \o path

\* scrape_section: page_url
PageUrl(name, p) ==
    UrlJoin(BASE_URL, SectionPath(name)) \o "?page=" \o ToString(p)

\* str.upper() of a method name
UpperMethod(m) ==
    CASE m \in {"get", "Get", "GET"} -> "GET"
      [] m \in {"post", "Post", "POST"} -> "POST"
      [] m \in {"put", "PUT"} -> "PUT"
      [] OTHER -> m

\* most requests that fail in one behaviour
MaxFailures == 4

\* most public methods called in one behaviour
MaxCalls == 3

\* pages of a section that hold records; later pages are empty
MaxForumPages == 3

\* extract_page_data(response.content, section_name) for page p of the
\* section: the records of the page, in page order
PageData(name, p) ==
    IF p \in DOMAIN forum
    THEN [k \in 1..forum[p] |-> [section |-> name, page |-> p, item |-> k]]
    ELSE <<>>

\* no _make_request call is in progress
NotRequesting == [url |-> None, method |-> None, attempt |-> 0]

\* an int argument left out or given as None, and one given as n
NoInt == <<>>
Given(n) == <<n>>

\* ImamotherScraper.__init__
InitScraperObject ==
    /\ session_active = FALSE
    /\ user_agent \in USER_AGENTS
    /\ request = NotRequesting
    /\ response = Ok(None)
    /\ requests_made = <<>>
    /\ outcomes = <<>>
    /\ slept = <<>>
    /\ rotations = 0
    /\ failures = 0
    /\ frame = None
    /\ all_frame = None
    /\ called = None
    /\ ret = None
    /\ calls = 0

\* _make_request is entered: no attempt of this call was made yet
Enter(url, method) ==
    /\ request' = [url |-> url, method |-> method, attempt |-> 0]
    /\ outcomes' = <<>>
    /\ slept' = <<>>
    /\ rotations' = 0

\* no request is made
NoRequest == UNCHANGED <<request, outcomes, slept, rotations>>

\* what only an attempt changes
Passive == UNCHANGED <<user_agent, response, failures, forum>>

\* a failed attempt that is followed by one more
MayRetry_Always(attempt) == attempt < MAX_RETRIES

\* _make_request: a failed attempt is followed by another one
MayRetry(attempt) == attempt < MAX_RETRIES - 1

\* One attempt of _make_request: one turn of its loop.  The session sends
\* the request and gets a good response, or a RequestException is raised
\* (connection error, timeout after 30 s, error status).
MakeRequest ==
    /\ request # NotRequesting
    /\ IF UpperMethod(request.method) \notin {"GET", "POST"}
       THEN /\ response' = Raise("ValueError")
            /\ request' = NotRequesting
            /\ UNCHANGED <<requests_made, outcomes, slept, rotations,
                           user_agent, failures>>
       ELSE \E ok \in BOOLEAN :
              /\ ok \/ failures < MaxFailures
              /\ requests_made' = Append(requests_made,
                                         [url |-> request.url,
                                          method |-> UpperMethod(request.method),
                                          ok |-> ok])
              /\ outcomes' = Append(outcomes, ok)
              /\ IF ok
                 THEN /\ response' = Ok(request.url)
                      /\ request' = NotRequesting
                      /\ UNCHANGED <<slept, rotations, user_agent, failures>>
                 ELSE /\ failures' = failures + 1
                      /\ IF MayRetry(request.attempt)
                         THEN /\ slept' = Append(slept, RETRY_DELAY * (request.attempt + 1))
                              /\ user_agent' \in USER_AGENTS
                              /\ rotations' = rotations + 1
                              /\ request' = [request EXCEPT !.attempt = @ + 1]
                              /\ UNCHANGED response
                         ELSE /\ response' = Ok(None)
                              /\ request' = NotRequesting
                              /\ UNCHANGED <<slept, rotations, user_agent>>
    /\ UNCHANGED <<pc, session_active, frame, all_frame, called, ret, calls, forum>>
    /\ UNCHANGED <<extraction_vars, analyzer_vars>>

\* a public method returns value v to its caller
Return(v) ==
    /\ ret' = v
    /\ pc' = "idle"

\* a public method is called
Called(op, args) ==
    /\ pc = "idle"
    /\ calls < MaxCalls
    /\ calls' = calls + 1
    /\ called' = [op |-> op, args |-> args]
    /\ requests_made' = <<>>

\* login, up to the request of the login page
Login(credentials) ==
    /\ Called("login", <<credentials>>)
    /\ IF ~credentials
       THEN Return(FALSE) /\ NoRequest
       ELSE /\ Enter(LOGIN_URL, "GET")
            /\ pc' = "login_page"
            /\ UNCHANGED ret
    /\ Passive
    /\ UNCHANGED <<session_active, frame, all_frame>>
    /\ UNCHANGED <<extraction_vars, analyzer_vars>>

\* the login form of a login page: its action and method attributes, None
\* for an attribute it does not have
LoginForms ==
    { [action |-> None, method |-> None],
      [action |-> "/auth", method |-> "post"],
      [action |-> None, method |-> "get"],
      [action |-> "/auth", method |-> "put"] }

\* dict.get(key, default) of an attribute
Get(attribute, default) == IF attribute = None THEN default ELSE attribute

\* login, from the login page to the request that submits the form
LoginPage ==
    /\ pc = "login_page"
    /\ request = NotRequesting
    /\ IF response = Ok(None)
       THEN Return(FALSE) /\ NoRequest
       ELSE \/ Return(FALSE) /\ NoRequest
            \/ \E login_form \in LoginForms :
                   /\ Enter(UrlJoin(BASE_URL, Get(login_form.action, "/login")),
                            UpperMethod(Get(login_form.method, "POST")))
                   /\ pc' = "login_post"
                   /\ UNCHANGED ret
    /\ Passive
    /\ UNCHANGED requests_made
    /\ UNCHANGED <<session_active, frame, all_frame, called, calls>>
    /\ UNCHANGED <<extraction_vars, analyzer_vars>>

\* where the site may leave the browser after the form was submitted
FinalUrls(login_url) ==
    {login_url, BASE_URL \o "/login?failed=1", BASE_URL \o "/home"}

\* login_successful, from the response to the submitted form
LoginSuccessful(indicator, url, login_url) ==
    \/ indicator
    \/ url # login_url /\ ~Contains(Lower(url), "login")

\* login, from the response to the submitted form
LoginPost ==
    /\ pc = "login_post"
    /\ request = NotRequesting
    /\ IF response = Ok(None) \/ response.exc
       THEN Return(FALSE) /\ UNCHANGED session_active
       ELSE \E indicator \in BOOLEAN, url \in FinalUrls(response.val) :
              IF LoginSuccessful(indicator, url, response.val)
              THEN session_active' = TRUE /\ Return(TRUE)
              ELSE UNCHANGED session_active /\ Return(FALSE)
    /\ NoRequest
    /\ Passive
    /\ UNCHANGED requests_made
    /\ UNCHANGED <<frame, all_frame, called, calls>>
    /\ UNCHANGED <<extraction_vars, analyzer_vars>>

\* scrape_section returns section_data, to scrape_all_sections if that
\* called it
ReturnSection(section_data) ==
    /\ frame' = None
    /\ NoRequest
    /\ IF called'.op = "scrape_section"
       THEN Return(section_data) /\ UNCHANGED all_frame
       ELSE /\ all_frame' = [all_data |-> Append(all_frame.all_data,
                                                 [name |-> Head(all_frame.todo),
                                                  posts |-> section_data]),
                             todo |-> Tail(all_frame.todo)]
            /\ pc' = "all"
            /\ UNCHANGED ret

\* max_pages or MAX_PAGES_PER_SECTION
EffectiveMaxPages(max_pages) ==
    IF max_pages = NoInt \/ max_pages = Given(0)
    THEN MAX_PAGES_PER_SECTION
    ELSE max_pages[1]

\* scrape_section: the loop is at page p with section_data collected
AtPage(name, max_pages, p, section_data) ==
    IF p > max_pages
    THEN ReturnSection(section_data)
    ELSE /\ frame' = [section_name |-> name, max_pages |-> max_pages,
                      page |-> p, section_data |-> section_data]
         /\ Enter(PageUrl(name, p), "GET")
         /\ pc' = "page"
         /\ UNCHANGED <<ret, all_frame>>

\* scrape_section that does not look at session_active
EnterSection_NoSessionCheck(section_name, max_pages) ==
    IF section_name \notin SectionNames
    THEN ReturnSection(<<>>)
    ELSE AtPage(section_name, EffectiveMaxPages(max_pages), 1, <<>>)

\* scrape_section, up to the request of the first page
EnterSection(section_name, max_pages) ==
    IF ~session_active
    THEN ReturnSection(<<>>)
    ELSE IF section_name \notin SectionNames
         THEN ReturnSection(<<>>)
         ELSE AtPage(section_name, EffectiveMaxPages(max_pages), 1, <<>>)

\* scrape_section is called
ScrapeSection(section_name, max_pages) ==
    /\ Called("scrape_section", <<section_name, max_pages>>)
    /\ EnterSection(section_name, max_pages)
    /\ Passive
    /\ UNCHANGED session_active
    /\ UNCHANGED <<extraction_vars, analyzer_vars>>

\* scrape_section, from the return of the request of a page to the request
\* of the next page or to the return
PageFetched ==
    /\ pc = "page"
    /\ request = NotRequesting
    /\ UNCHANGED <<session_active, called, calls>>
    /\ IF response = Ok(None)
       THEN AtPage(frame.section_name, frame.max_pages, frame.page + 1,
                   frame.section_data)
       ELSE Bind(PageData(frame.section_name, frame.page), LAMBDA page_data :
              IF page_data = <<>>
              THEN ReturnSection(frame.section_data)
              ELSE IF Len(page_data) < MAX_POSTS_PER_PAGE
                   THEN ReturnSection(frame.section_data \o page_data)
                   ELSE AtPage(frame.section_name, frame.max_pages,
                               frame.page + 1, frame.section_data \o page_data))
    /\ Passive
    /\ UNCHANGED requests_made
    /\ UNCHANGED <<extraction_vars, analyzer_vars>>

\* scrape_all_sections is called
ScrapeAllSections ==
    /\ Called("scrape_all_sections", <<>>)
    /\ IF ~session_active
       THEN Return(<<>>) /\ UNCHANGED all_frame
       ELSE /\ all_frame' = [all_data |-> <<>>,
                             todo |-> [k \in DOMAIN FORUM_SECTIONS |->
                                          FORUM_SECTIONS[k].name]]
            /\ pc' = "all"
            /\ UNCHANGED ret
    /\ NoRequest
    /\ Passive
    /\ UNCHANGED <<session_active, frame>>
    /\ UNCHANGED <<extraction_vars, analyzer_vars>>

\* scrape_all_sections: the next section is scraped, or all_data returned
AllSections ==
    /\ pc = "all"
    /\ UNCHANGED <<session_active, called, calls>>
    /\ IF all_frame.todo = <<>>
       THEN /\ Return(all_frame.all_data)
            /\ all_frame' = None
            /\ NoRequest
            /\ UNCHANGED frame
       ELSE EnterSection(Head(all_frame.todo), NoInt)
    /\ Passive
    /\ UNCHANGED requests_made
    /\ UNCHANGED <<extraction_vars, analyzer_vars>>

\* logout, up to the request of the logout page; op is "logout", or
\* "__exit__" when the context manager calls it
Logout(op) ==
    /\ Called(op, <<>>)
    /\ IF session_active
       THEN /\ Enter(UrlJoin(BASE_URL, "/logout"), "GET")
            /\ pc' = "logout"
            /\ UNCHANGED ret
       ELSE /\ NoRequest
            /\ Return(None)
    /\ Passive
    /\ UNCHANGED <<session_active, frame, all_frame>>
    /\ UNCHANGED <<extraction_vars, analyzer_vars>>

\* logout, after the request of the logout page
LoggedOut ==
    /\ pc = "logout"
    /\ request = NotRequesting
    /\ session_active' = FALSE
    /\ Return(None)
    /\ NoRequest
    /\ Passive
    /\ UNCHANGED requests_made
    /\ UNCHANGED <<frame, all_frame, called, calls>>
    /\ UNCHANGED <<extraction_vars, analyzer_vars>>

\* no page is being extracted and nothing aggregated
NoExtraction ==
    /\ page = <<>>
    /\ section = "general_discussion"
    /\ now = Clock
    /\ soup = <<>>
    /\ sel = 1
    /\ posts = <<>>
    /\ idx = 0
    /\ posts_data = <<>>
    /\ caught = {}
    /\ data = <<>>
    /\ stats = InitialStats
    /\ spos = 0
    /\ engagement = Frac(0, 1)
    /\ score_in = NoRecord
    /\ score_out = Frac(0, 1)

\* a site whose pages hold n[p] records
Site(n) == [p \in 1..Len(n) |-> n[p]]

\* _make_request called on its own
Request(url, method) ==
    /\ Called("_make_request", <<url, method>>)
    /\ Enter(url, method)
    /\ pc' = "request"
    /\ Passive
    /\ UNCHANGED <<session_active, frame, all_frame, ret>>
    /\ UNCHANGED <<extraction_vars, analyzer_vars>>

\* that call returns or raises
Requested ==
    /\ pc = "request"
    /\ request = NotRequesting
    /\ Return(response)
    /\ NoRequest
    /\ Passive
    /\ UNCHANGED requests_made
    /\ UNCHANGED <<session_active, frame, all_frame, called, calls>>
    /\ UNCHANGED <<extraction_vars, analyzer_vars>>

InitRequest ==
    /\ pc = "idle"
    /\ NoExtraction
    /\ InitAnalyzerObject
    /\ InitScraperObject
    /\ forum = Site(<<>>)

NextRequest ==
    \/ \E url \in {LOGIN_URL, PageUrl("married_life", 1)},
          method \in {"GET", "post", "PUT"} : Request(url, method)
    \/ MakeRequest
    \/ Requested

SpecRequest == InitRequest /\ [][NextRequest]_vars

\* every attempt ends (timeout=30) and every sleep ends
LiveRequest ==
    InitRequest /\ [][NextRequest]_vars /\ WF_vars(MakeRequest) /\ WF_vars(Requested)

\* sites for the calls of a session: empty, or one short page
SessionForums == {Site(<<>>), Site(<<1>>)}

InitSession ==
    /\ pc = "idle"
    /\ NoExtraction
    /\ InitAnalyzerObject
    /\ InitScraperObject
    /\ forum \in SessionForums

NextSession ==
    \/ \E credentials \in BOOLEAN : Login(credentials)
    \/ LoginPage
    \/ LoginPost
    \/ \E section_name \in {"married_life", "recipes"}, max_pages \in {NoInt, Given(1)} :
           ScrapeSection(section_name, max_pages)
    \/ PageFetched
    \/ ScrapeAllSections
    \/ AllSections
    \/ \E op \in {"logout", "__exit__"} : Logout(op)
    \/ LoggedOut
    \/ MakeRequest

SpecSession == InitSession /\ [][NextSession]_vars

\* numbers of records a page may hold
PageSizes == {0, 1, MAX_POSTS_PER_PAGE}

\* the sites of at most MaxForumPages pages
Forums ==
    UNION { [1..n -> PageSizes] : n \in 0..MaxForumPages }

\* a scraper that logged in, about to make its last call
InitSection ==
    /\ pc = "idle"
    /\ NoExtraction
    /\ InitAnalyzerObject
    /\ session_active = TRUE
    /\ user_agent \in USER_AGENTS
    /\ request = NotRequesting
    /\ response = Ok(None)
    /\ requests_made = <<>>
    /\ outcomes = <<>>
    /\ slept = <<>>
    /\ rotations = 0
    /\ failures = 0
    /\ frame = None
    /\ all_frame = None
    /\ called = None
    /\ ret = None
    /\ calls = MaxCalls - 1
    /\ forum \in Forums

NextScrapeSection ==
    \/ \E max_pages \in {NoInt} \cup {Given(n) : n \in 0..MaxForumPages} :
           ScrapeSection("married_life", max_pages)
    \/ PageFetched
    \/ MakeRequest

SpecSection == InitSection /\ [][NextScrapeSection]_vars

---------------------------------------------------------------------------
(* Properties                                                              *)

MaxRelative == 10

\* the fragments are located: the loop over them runs or has just ended
InLoop == pc \in {"extract", "stats"}

\* the positions, in posts, of the fragments processed without an exception
Survivors ==
    SelectSeq([k \in 1..idx |-> k], LAMBDA k : k \notin caught)

RECURSIVE ExtractAll(_, _)
\* the records of the loop of extract_page_data run on the fragments ps
ExtractAll(tree, ps) ==
    IF ps = <<>> THEN <<>>
    ELSE Bind(ExtractPostData(tree, ps[1], section, now), LAMBDA r :
             r.out \o ExtractAll(r.tree, Tail(ps)))

\* C1: an exception raised while one fragment is extracted is caught: the
\* fragment adds no record, and the records at hand are those the loop
\* yields on the same page when the raising fragments are left out of it.
C1_FailuresAreIsolated ==
    InLoop =>
        /\ Len(posts_data) <= idx - Cardinality(caught)
        /\ posts_data =
               ExtractAll(page, [n \in DOMAIN Survivors |-> posts[Survivors[n]]])

\* a raising fragment was followed by one that gave a record
C1_Witness ==
    /\ pc = "stats"
    /\ \E k \in caught : k < idx /\ (k + 1) \notin caught
    /\ posts_data # <<>>

\* C2: generate_summary_stats never raises to its caller, whichever
\* optional fields of the records are absent.
C2_StatsNeverRaise == pc # "raised"

\* C3: every record has content, and its trimmed content is longer than
\* 20 characters.
C3_ContentIsMeaningful ==
    \A n \in DOMAIN posts_data :
        /\ posts_data[n].content # None
        /\ posts_data[n].content # ""
        /\ Len(Strip(posts_data[n].content)) > 20

\* a record whose content has 21 characters was kept and one of 20 dropped
C3_Witness ==
    /\ pc = "stats"
    /\ Len(posts) = 2
    /\ Len(posts_data) = 1
    /\ Len(posts_data[1].content) = 21
    /\ ExtractContent(page, posts[1]).val # None
    /\ Len(ExtractContent(page, posts[1]).val) = 20

\* the content _extract_content finds for each processed fragment of the
\* page, where it is longer than 20 characters
LongContents ==
    LET found == [k \in 1..idx |-> ExtractContent(page, posts[k]).val]
    IN  SelectSeq(found, LAMBDA c : c # None /\ Len(Strip(c)) > 20)

\* C4: the records are, in document order, one for each located fragment
\* whose extracted content is longer than 20 characters, and none for the
\* other fragments.
C4_OneRecordPerLongFragment ==
    InLoop => [n \in DOMAIN posts_data |-> posts_data[n].content] = LongContents

\* the text a fragment's timestamp is read from when it has no datetime
\* and no title attribute, None otherwise
TimestampText(tree, i) ==
    LET hits == SelectSeq(time_selectors, LAMBDA s :
                    LET e == SelectOne(tree, i, s)
                    IN  /\ e # 0
                        /\ \/ tree[e].attrs["datetime"] # ""
                           \/ tree[e].attrs["title"] # ""
                           \/ Strip(GetText(tree, e)) # "")
    IN  IF hits = <<>> THEN None
        ELSE LET e == SelectOne(tree, i, hits[1])
             IN  IF tree[e].attrs["datetime"] # "" \/ tree[e].attrs["title"] # ""
                 THEN None
                 ELSE Strip(GetText(tree, e))

\* "<N> minute(s)/hour(s)/day(s) ago" in any letter case, as <<N, unit>>
RelativeForms(text) ==
    {f \in (0..MaxRelative) \X {<<"minute", 1>>, <<"hour", MinutesPerHour>>,
                               <<"day", MinutesPerDay>>} :
        \E plural \in {"", "s"} :
            Lower(text) = ToString(f[1]) \o " " \o f[2][1] \o plural \o " ago"}

\* C5: a fragment whose timestamp is element text "<N> <unit>(s) ago"
\* gives a record whose timestamp is the extraction time minus N units, in
\* ISO form; other text is kept verbatim in lower case.
C5_RelativeTimeIsResolved ==
    InLoop =>
        \A k \in 1..idx :
            LET text == TimestampText(page, posts[k])
            IN  (text # None /\ Meaningful(ExtractContent(page, posts[k]).val)) =>
                    \E n \in DOMAIN posts_data :
                        IF RelativeForms(text) # {}
                        THEN \E f \in RelativeForms(text) :
                                 posts_data[n].timestamp =
                                     IsoFormat(now - f[1] * f[2][2])
                        ELSE posts_data[n].timestamp = Lower(text)

\* a is the anonymized form of username u
Anonymized(u, a) ==
    IF Len(u) <= 2
    THEN a = "User_" \o Repeat("X", Len(u))
    ELSE /\ Len(a) = Len(u)
         /\ Ch(a, 1) = Ch(u, 1)
         /\ Ch(a, Len(a)) = Ch(u, Len(u))
         /\ \A j \in 2..(Len(u) - 1) : Ch(a, j) = "X"

\* a shows no interior character of u at its position
HidesInterior(u, a) ==
    Len(u) >= 3 => \A j \in 2..(Len(u) - 1) : Ch(a, j) # Ch(u, j)

\* C6 (as amended): a username of at most 2 characters becomes "User_" and
\* as many X; a longer one keeps its length, its first and its last
\* character and has X in every interior position; every author stored in
\* a record is the anonymized author text of a fragment of the page.
C6_AuthorsAreAnonymized ==
    InLoop =>
        \A n \in DOMAIN posts_data :
            posts_data[n].author # None =>
                \E k \in 1..idx :
                    /\ AuthorText(page, posts[k]) # None
                    /\ Anonymized(AuthorText(page, posts[k]), posts_data[n].author)

\* C6 (as claimed): moreover no interior character of the username
\* appears at its position in the stored author.
C6_NoInteriorCharacterShown ==
    InLoop =>
        \A n \in DOMAIN posts_data :
            posts_data[n].author # None =>
                \E k \in 1..idx :
                    /\ AuthorText(page, posts[k]) # None
                    /\ Anonymized(AuthorText(page, posts[k]), posts_data[n].author)
                    /\ HidesInterior(AuthorText(page, posts[k]), posts_data[n].author)

\* the author "abb" was stored as "aXb"
C6_Witness ==
    /\ pc = "stats"
    /\ Len(posts_data) = 1
    /\ AuthorText(page, posts[1]) = "abb"
    /\ posts_data[1].author = "aXb"

\* a score lies in [0, 100]
InRange(score) ==
    /\ score.den > 0
    /\ score.num >= 0
    /\ score.num <= 100 * score.den

\* C7: for non-negative replies and views the engagement score lies in
\* [0, 100], whatever the flags and the number of resource mentions.
C7_ScoreInRange ==
    /\ pc = "scored" => InRange(score_out)
    /\ pc \in {"fold", "done", "raised"} => InRange(engagement)

\* replies exceed views, so the raw score is above 100 and the cap applies
C7_Witness ==
    /\ pc = "scored"
    /\ score_in.views_count > 0
    /\ score_in.replies_count > score_in.views_count
    /\ score_in.is_question
    /\ score_out.num = 100 * score_out.den

\* pattern occurs in content at position i, letter case ignored
OccursAt(pattern, content, i) ==
    /\ i + Len(pattern) - 1 <= Len(content)
    /\ \A j \in 1..Len(pattern) :
           LowerChar(Ch(content, i + j - 1)) = LowerChar(Ch(pattern, j))

HasAny(patterns, content) ==
    \E pattern \in patterns : \E i \in 1..Len(content) :
        OccursAt(pattern, content, i)

\* C8: is_question holds exactly when the content holds one of the ten
\* question patterns, letter case ignored, and is_answer exactly when it
\* holds one of the seven answer patterns.
C8_FlagsFollowPatterns ==
    \A n \in DOMAIN posts_data :
        /\ posts_data[n].is_question <=>
               HasAny({"?", "how to", "what is", "where can", "when should",
                       "why does", "help", "advice", "suggestions",
                       "recommendations"}, posts_data[n].content)
        /\ posts_data[n].is_answer <=>
               HasAny({"try this", "i suggest", "in my experience",
                       "you should", "i recommend", "what worked for me",
                       "here's what"}, posts_data[n].content)

\* an upper-case "HELP" made a question that is no answer
C8_Witness ==
    /\ pc = "stats"
    /\ Len(posts_data) = 1
    /\ posts_data[1].content = "PLEASE HELP me with the baby"
    /\ posts_data[1].is_question
    /\ ~posts_data[1].is_answer

\* the seven structural selectors in their order
StructuralSelectors ==
    <<Cls("post"), Cls("message"), Cls("forum-post"), Cls("topic-post"),
      ClsSub("post"), ClsSub("message"), Cls("thread-item")>>

\* the selectors that match an element of the page
MatchingSelectors ==
    {k \in DOMAIN StructuralSelectors :
        Select(page, 0, StructuralSelectors[k]) # <<>>}

\* C9: the located fragments are the matches of the first structural
\* selector, in the fixed order, that matches anything; the heuristic
\* fallback runs only when none of the seven matches.
C9_FirstMatchingSelectorWins ==
    /\ pc = "fallback" => MatchingSelectors = {}
    /\ (InLoop /\ MatchingSelectors # {}) =>
           \E k \in MatchingSelectors :
               /\ \A j \in MatchingSelectors : k <= j
               /\ posts = Select(page, 0, StructuralSelectors[k])

\* .message matched one element although [class*="message"] matches two
C9_Witness ==
    /\ pc = "extract"
    /\ Len(posts) = 1
    /\ Len(Select(page, 0, ClsSub("message"))) = 2

\* some element below j has a class holding one of the words
HasClassLike(j, words) ==
    \E d \in Descendants(page, j) :
        /\ IsElement(page[d])
        /\ \E c \in DOMAIN page[d].class : \E w \in words :
               Contains(page[d].class[c], w)

\* how many of the four heuristics element j of the page satisfies
Heuristics(j) ==
    (IF HasClassLike(j, {"author", "user", "poster"}) THEN 1 ELSE 0)
    + (IF HasClassLike(j, {"date", "time", "timestamp"}) THEN 1 ELSE 0)
    + (IF HasClassLike(j, {"content", "body", "message"}) THEN 1 ELSE 0)
    + (IF SplitCount(Strip(GetText(page, j))) > 10 THEN 1 ELSE 0)

\* the div/article/section elements of the page with at least least
\* characters of trimmed text and at least 2 of the 4 heuristics
LikelyPosts(least) ==
    InOrder(page, {j \in 1..Len(page) :
        /\ page[j].tag \in {"div", "article", "section"}
        /\ Len(Strip(GetText(page, j))) >= least
        /\ Heuristics(j) >= 2})

\* C10 (as amended): when no structural selector matches, the located
\* fragments are, in document order, the div/article/section elements with
\* at least 50 characters of trimmed text and at least 2 of the 4
\* heuristics; none qualifying, the sequence is empty.
C10_FallbackKeepsLikelyPosts ==
    (InLoop /\ MatchingSelectors = {}) => posts = LikelyPosts(50)

\* C10 (as claimed): the text has to exceed 50 characters.
C10_FallbackNeedsMoreThan50 ==
    (InLoop /\ MatchingSelectors = {}) => posts = LikelyPosts(51)

\* the scan kept an element of exactly 50 characters and passed over another
C10_Witness ==
    /\ pc = "extract"
    /\ MatchingSelectors = {}
    /\ Len(posts) = 1
    /\ Len(Strip(GetText(page, posts[1]))) = 50
    /\ \E j \in 1..Len(page) :
           /\ page[j].tag = "div"
           /\ page[j].depth = 1
           /\ j # posts[1]

\* no element of fragment i matches a content selector, so only the
\* whole-text fallback can supply content
OnlyFallback(tree, i) ==
    \A k \in DOMAIN content_selectors : SelectOne(tree, i, content_selectors[k]) = 0

\* the processed fragments with only the fallback and a text of n characters
FallbackOnly(n) ==
    {k \in 1..idx : /\ OnlyFallback(page, posts[k])
                    /\ Len(Strip(GetText(page, posts[k]))) = n}

\* C11 (as amended): for a fragment where only the whole-text fallback can
\* supply content, a text of exactly 11 characters is the content that
\* _extract_content finds and a text of exactly 10 gives no content; in
\* both cases the fragment gives no record, 11 not being more than 20.
C11_FallbackLimit ==
    InLoop =>
        /\ \A k \in FallbackOnly(11) :
               /\ ExtractContent(page, posts[k]).val = Strip(GetText(page, posts[k]))
               /\ \A n \in DOMAIN posts_data :
                      posts_data[n].content # Strip(GetText(page, posts[k]))
        /\ \A k \in FallbackOnly(10) :
               /\ ExtractContent(page, posts[k]).val = None
               /\ \A n \in DOMAIN posts_data :
                      posts_data[n].content # Strip(GetText(page, posts[k]))

\* C11 (as claimed): the text of exactly 11 characters is the content of
\* a record.
C11_ElevenGivesRecord ==
    InLoop =>
        \A k \in FallbackOnly(11) :
            \E n \in DOMAIN posts_data :
                posts_data[n].content = Strip(GetText(page, posts[k]))

\* a fragment of 11 and one of 10 characters were processed, and a third
\* whose whole text is long enough gave the only record
C11_Witness ==
    /\ pc = "stats"
    /\ FallbackOnly(11) # {}
    /\ caught = {}
    /\ \E k \in 1..idx :
           /\ OnlyFallback(page, posts[k])
           /\ Len(posts_data) = 1
           /\ posts_data[1].content = Strip(GetText(page, posts[k]))

\* the four categories in the order product, service, information,
\* community
Buckets == <<"product", "service", "information", "community">>

\* the highest keyword hit count of a post
TopHits(post) ==
    LET scores == OpportunityScores(post)
    IN  CHOOSE n \in {scores[Buckets[a]] : a \in 1..4} :
            \A a \in 1..4 : scores[Buckets[a]] <= n

\* the positions in Buckets of the categories with the highest count
Tied(post) == {a \in 1..4 : OpportunityScores(post)[Buckets[a]] = TopHits(post)}

\* the first of them
FirstTied(post) == Buckets[CHOOSE a \in Tied(post) : \A b \in Tied(post) : a <= b]

\* the round of the loop of generate_summary_stats for a post has counted
\* it in bucket c and in no other
CountedIn(c) ==
    \A a \in 1..4 :
        stats'.business_opportunities[Buckets[a]] =
            stats.business_opportunities[Buckets[a]]
            + (IF Buckets[a] = c THEN 1 ELSE 0)

\* a round of the loop of generate_summary_stats has ended for a post
PostFolded == pc = "fold" /\ spos' = spos + 1

\* C12: a post in which two or more categories share the highest keyword
\* hit count, above 0, is categorized as the first of them in the order
\* product, service, information, community, on every call.
C12_TiesGoToTheFirst ==
    [][PostFolded =>
          LET post == AllPosts(data)[spos + 1]
          IN  (TopHits(post) > 0 /\ Cardinality(Tied(post)) >= 2) =>
                  /\ CategorizeBusinessOpportunity(post) = Ok(FirstTied(post))
                  /\ CountedIn(FirstTied(post))]_vars

\* the post with product 2, service 2, information 0, community 0 was
\* counted as product
C12_Witness ==
    /\ pc = "done"
    /\ Len(AllPosts(data)) = 1
    /\ OpportunityScores(AllPosts(data)[1]) =
           [product |-> 2, service |-> 2, information |-> 0, community |-> 0]
    /\ stats.business_opportunities =
           [product |-> 1, service |-> 0, information |-> 0, community |-> 0]

\* s ends with p
EndsWith(s, p) == Len(p) <= Len(s) /\ SubSeq(s, Len(s) - Len(p) + 1, Len(s)) = p

\* the type of a link by the rules on its lower-cased URL, in their order
LinkType(url) ==
    LET u == Lower(url)
    IN  IF \E d \in {"amazon", "ebay", "shop"} : Contains(u, d) THEN "product"
        ELSE IF \E x \in {".pdf", ".doc", ".docx"} : EndsWith(u, x) THEN "document"
        ELSE IF \E d \in {"youtube", "vimeo"} : Contains(u, d) THEN "video"
        ELSE IF SubSeq(u, 1, 7) = "mailto:" THEN "email"
        ELSE "external"

\* C13: the type of every link of every record is one of product,
\* document, video, email, external, decided on the lower-cased URL:
\* product if it contains amazon, ebay or shop; else document if its
\* extension is .pdf, .doc or .docx; else video if it contains youtube or
\* vimeo; else email if it starts with mailto:; else external.
C13_LinkTypes ==
    \A n \in DOMAIN posts_data :
        \A l \in DOMAIN posts_data[n].links :
            /\ posts_data[n].links[l].type \in
                   {"product", "document", "video", "email", "external"}
            /\ posts_data[n].links[l].type = LinkType(posts_data[n].links[l].url)

RECURSIVE EachAlone(_)
\* the records of the fragments ps, each extracted from the page as parsed
EachAlone(ps) ==
    IF ps = <<>> THEN <<>>
    ELSE ExtractPostData(page, ps[1], section, now).out \o EachAlone(Tail(ps))

\* C14: extracting a record leaves the parsed tree as it was, and the
\* record of a fragment is the one it gives on the page as parsed,
\* whichever fragments were processed before it.
C14_ExtractionIsPure ==
    InLoop =>
        /\ soup = page
        /\ posts_data = EachAlone(SubSeq(posts, 1, idx))

\* the bonuses of a record: 10 for a question, 5 for an answer, 2 for
\* each resource mention
Bonuses(r) ==
    (IF r.is_question THEN 10 ELSE 0) + (IF r.is_answer THEN 5 ELSE 0)
    + 2 * Cardinality(r.resource_mentions)

\* score is min(100, base + bonuses) for record r, where base is
\* (replies / views) * 100 when views > 0 and 0 otherwise
IsScoreOf(score, r) ==
    IF r.views_count > 0
    THEN IF 100 * r.replies_count + Bonuses(r) * r.views_count
                >= 100 * r.views_count
         THEN score.num = 100 * score.den
         ELSE score.num * r.views_count =
                  (100 * r.replies_count + Bonuses(r) * r.views_count) * score.den
    ELSE IF Bonuses(r) >= 100 THEN score.num = 100 * score.den
         ELSE score.num = Bonuses(r) * score.den

\* C15: the engagement score of a record is min(100, base + 10 for a
\* question + 5 for an answer + 2 for each resource mention), base being
\* (replies / views) * 100 when views > 0 and 0 when views is 0.
C15_ScoreFormula ==
    /\ pc = "scored" => IsScoreOf(score_out, score_in)
    /\ (pc \in {"fold", "done"} /\ spos > 0) =>
           IsScoreOf(engagement, AllPosts(data)[spos])

\* a record with 0 views and 0 replies scored exactly its bonuses
C15_Witness ==
    /\ pc = "scored"
    /\ score_in.views_count = 0
    /\ score_in.replies_count = 0
    /\ score_in.is_question
    /\ score_in.is_answer
    /\ Cardinality(score_in.resource_mentions) = 3
    /\ score_out = Frac(21, 1)

\* the category of a post without any keyword hit, by its section
SectionFallback(sec) ==
    IF Contains(sec, "pregnancy") \/ Contains(sec, "childbirth")
    THEN "health_service"
    ELSE IF Contains(sec, "married") THEN "relationship_service"
    ELSE IF Contains(sec, "infertility") THEN "medical_service"
    ELSE "general"

FallbackValues ==
    {"health_service", "relationship_service", "medical_service", "general"}

\* C16: a post is categorized as the category whose keyword hit count is
\* the strict maximum; with all four counts 0 it gets the section
\* fallback (pregnancy or childbirth, else married, else infertility, else
\* general) and is counted in no bucket; a fallback value is never the
\* result when a count is not 0.
C16_StrictMaximumOrFallback ==
    [][PostFolded =>
          LET post == AllPosts(data)[spos + 1]
              result == CategorizeBusinessOpportunity(post)
          IN  /\ ~result.exc
              /\ (TopHits(post) > 0 /\ Cardinality(Tied(post)) = 1) =>
                     /\ result.val = FirstTied(post)
                     /\ CountedIn(FirstTied(post))
              /\ TopHits(post) = 0 =>
                     /\ result.val = SectionFallback(post.section)
                     /\ CountedIn("")
              /\ TopHits(post) > 0 => result.val \notin FallbackValues]_vars

\* a post without any keyword hit in a section under two of the rules was
\* folded and no bucket counted it
C16_Witness ==
    /\ pc = "done"
    /\ Len(AllPosts(data)) = 1
    /\ TopHits(AllPosts(data)[1]) = 0
    /\ AllPosts(data)[1].section = "pregnancy_after_infertility"
    /\ \A a \in 1..4 : stats.business_opportunities[Buckets[a]] = 0

RECURSIVE Total(_)
\* the sum of the values of a mapping to numbers
Total(d) ==
    IF DOMAIN d = {} THEN 0
    ELSE LET k == CHOOSE k \in DOMAIN d : TRUE
         IN  d[k] + Total([j \in DOMAIN d \ {k} |-> d[j]])

\* the posts of the mapping that get a section fallback as category
FallbackPosts ==
    {n \in DOMAIN AllPosts(data) :
        CategorizeBusinessOpportunity(AllPosts(data)[n]).val \in FallbackValues}

\* C17: in the result of generate_summary_stats total_posts is the sum of
\* the per-section counts, the buckets are product, service, information
\* and community and no other, and their sum is total_posts minus the
\* number of posts categorized by the section fallback.
C17_BucketsUndercount ==
    pc = "done" =>
        /\ stats.total_posts = Total(stats.sections)
        /\ stats.total_posts = Len(AllPosts(data))
        /\ DOMAIN stats.business_opportunities =
               {"product", "service", "information", "community"}
        /\ Total(stats.business_opportunities) =
               stats.total_posts - Cardinality(FallbackPosts)
        /\ Total(stats.business_opportunities) <= stats.total_posts

\* two sections with a post each, one post in a bucket and one with a
\* section fallback
C17_Witness ==
    /\ pc = "done"
    /\ Len(data) = 2
    /\ \A k \in 1..2 : Len(data[k].posts) = 1
    /\ stats.total_posts = 2
    /\ Cardinality(FallbackPosts) = 1
    /\ Total(stats.business_opportunities) = 1

RECURSIVE SumOf(_)
\* the sum of a sequence of numbers
SumOf(ns) == IF ns = <<>> THEN 0 ELSE ns[1] + SumOf(Tail(ns))

\* the posts of the mapping that score strictly more than 50
HighPosts ==
    {n \in DOMAIN AllPosts(data) :
        LET score == CalculateEngagementScore(AllPosts(data)[n])
        IN  score.num > 50 * score.den}

\* C18: on a mapping without any post generate_summary_stats returns,
\* with total_posts 0, both averages 0, every counter 0 and empty
\* histograms; on a mapping with posts its result has the averages of
\* replies and of views over all posts, and high_engagement_posts is the
\* number of posts that score strictly more than 50.
C18_AveragesAndEmptyMapping ==
    LET all == AllPosts(data)
    IN  /\ (pc \in {"fold", "raised"}) => all # <<>>
        /\ (pc = "done" /\ all = <<>>) =>
               /\ stats.total_posts = 0
               /\ stats.avg_replies.num = 0 /\ stats.avg_views.num = 0
               /\ stats.high_engagement_posts = 0
               /\ stats.questions = 0 /\ stats.answers = 0
               /\ stats.resource_mentions = 0
               /\ \A c \in DOMAIN stats.business_opportunities :
                      stats.business_opportunities[c] = 0
               /\ DOMAIN stats.posts_by_hour = {}
               /\ DOMAIN stats.posts_by_day = {}
               /\ \A name \in DOMAIN stats.sections : stats.sections[name] = 0
        /\ (pc = "done" /\ all # <<>>) =>
               /\ stats.avg_replies.den > 0 /\ stats.avg_views.den > 0
               /\ stats.avg_replies.num * Len(all) = stats.avg_replies.den
                      * SumOf([n \in DOMAIN all |-> all[n].replies_count])
               /\ stats.avg_views.num * Len(all) = stats.avg_views.den
                      * SumOf([n \in DOMAIN all |-> all[n].views_count])
               /\ stats.high_engagement_posts = Cardinality(HighPosts)

\* two posts, one with 3 replies and 4 views: averages 3/2 and 2, and one
\* post of high engagement
C18_AveragesSeen ==
    /\ pc = "done"
    /\ Len(AllPosts(data)) = 2
    /\ stats.avg_replies.num * 2 = 3 * stats.avg_replies.den
    /\ stats.avg_views.num = 2 * stats.avg_views.den
    /\ stats.high_engagement_posts = 1

\* two sections without a post gave the empty statistics
C18_Witness ==
    /\ pc = "done"
    /\ Len(data) = 2
    /\ AllPosts(data) = <<>>
    /\ stats.total_posts = 0

\* the post has a timestamp that datetime.fromisoformat parses
Parseable(post) ==
    /\ post.timestamp # None
    /\ post.timestamp # ""
    /\ IsIsoFormat(ReplaceZ(post.timestamp, 1))

\* histogram new is histogram old with 1 added to one bucket
AddsOne(new, old) ==
    \E b \in DOMAIN new :
        /\ DOMAIN new = DOMAIN old \cup {b}
        /\ \A k \in DOMAIN new :
               new[k] = (IF k \in DOMAIN old THEN old[k] ELSE 0)
                        + (IF k = b THEN 1 ELSE 0)

\* the statistics without the two histograms
Untimed(st) == [st EXCEPT !.posts_by_hour = <<>>, !.posts_by_day = <<>>]

\* C19: a post whose timestamp is missing or is no parseable ISO
\* timestamp changes neither histogram, raises nothing and changes the
\* other statistics as any post does; a post with a parseable timestamp
\* adds exactly 1 to one hour bucket and 1 to one day bucket; so both
\* histograms total the number of posts with a parseable timestamp.
C19_HistogramsSkipBadTimestamps ==
    /\ [](pc \in {"fold", "done", "raised"} =>
            /\ Total(stats.posts_by_hour) = Total(stats.posts_by_day)
            /\ Total(stats.posts_by_hour) =
                   Cardinality({n \in 1..spos : Parseable(AllPosts(data)[n])}))
    /\ [][PostFolded =>
            LET post == AllPosts(data)[spos + 1]
            IN  /\ Parseable(post) =>
                       /\ AddsOne(stats'.posts_by_hour, stats.posts_by_hour)
                       /\ AddsOne(stats'.posts_by_day, stats.posts_by_day)
                /\ ~Parseable(post) =>
                       /\ stats'.posts_by_hour = stats.posts_by_hour
                       /\ stats'.posts_by_day = stats.posts_by_day
                /\ Untimed(stats') =
                       Untimed(StatsRest(StatsContent(stats, post),
                                         [post EXCEPT !.timestamp = None],
                                         CategorizeBusinessOpportunity(post).val))]_vars

\* of two posts the one without a parseable timestamp was left out and
\* the other counted at 8 o'clock on a Tuesday
C19_Witness ==
    /\ pc = "done"
    /\ Len(AllPosts(data)) = 2
    /\ AllPosts(data)[1].timestamp = "yesterday"
    /\ Parseable(AllPosts(data)[2])
    /\ stats.posts_by_hour = (8 :> 1)
    /\ stats.posts_by_day = ("Tuesday" :> 1)

\* the lower-case form of character c
LowCh(c) ==
    IF c \in UpperChars
    THEN Ch(LowerAlpha, CHOOSE k \in 1..Len(UpperAlpha) : Ch(UpperAlpha, k) = c)
    ELSE c

\* the positions of s at which a word starts: a letter, digit or
\* underscore that follows none
Starts(s) ==
    {i \in 1..Len(s) :
        IsWordChar(Ch(s, i)) /\ (i = 1 \/ ~IsWordChar(Ch(s, i - 1)))}

\* the last position of the word that starts at position i of s
RunEnd(s, i) ==
    CHOOSE j \in i..Len(s) :
        /\ \A k \in i..j : IsWordChar(Ch(s, k))
        /\ (j = Len(s) \/ ~IsWordChar(Ch(s, j + 1)))

\* the word that starts at position i of s is w, letter case aside
Spells(s, i, w) ==
    /\ RunEnd(s, i) - i + 1 = Len(w)
    /\ \A k \in 1..Len(w) : LowCh(Ch(s, i + k - 1)) = Ch(w, k)

\* the positions of s at which word w stands
Places(s, w) == {i \in Starts(s) : Spells(s, i, w)}

\* the first of them
FirstPlace(s, w) == CHOOSE i \in Places(s, w) : \A j \in Places(s, w) : i <= j

\* the words that start at positions i and j of s are the same word
SameWord(s, i, j) ==
    /\ RunEnd(s, i) - i = RunEnd(s, j) - j
    /\ \A k \in 0..(RunEnd(s, i) - i) :
           LowCh(Ch(s, i + k)) = LowCh(Ch(s, j + k))

\* the word that starts at position i of s is alphabetic, longer than 3
\* characters and no stop word
QualifiesAt(s, i) ==
    /\ RunEnd(s, i) - i + 1 > 3
    /\ \A k \in i..RunEnd(s, i) : LowCh(Ch(s, k)) \in LowerChars
    /\ \A w \in stop_words : ~Spells(s, i, w)

\* kw are the keywords of content s
AreKeywordsOf(kw, s) ==
    LET freq(w) == Cardinality(Places(s, w))
    IN  /\ Len(kw) <= 10
        /\ \A a, b \in DOMAIN kw : a # b => kw[a] # kw[b]
        /\ \A a \in DOMAIN kw :
               /\ \A k \in 1..Len(kw[a]) : Ch(kw[a], k) \in LowerChars
               /\ \E i \in Places(s, kw[a]) : QualifiesAt(s, i)
        /\ \A a, b \in DOMAIN kw :
               a < b => \/ freq(kw[a]) > freq(kw[b])
                        \/ /\ freq(kw[a]) = freq(kw[b])
                           /\ FirstPlace(s, kw[a]) < FirstPlace(s, kw[b])
        /\ \A i \in Starts(s) :
               (QualifiesAt(s, i) /\ \A a \in DOMAIN kw : ~Spells(s, i, kw[a]))
                   => /\ Len(kw) = 10
                      /\ \A a \in DOMAIN kw :
                             Cardinality({j \in Starts(s) : SameWord(s, i, j)})
                                 <= freq(kw[a])

\* C20: the keywords of a record are at most 10 distinct lower-case
\* alphabetic words of its content, each longer than 3 characters and no
\* stop word, by frequency in the content, highest first, words of equal
\* frequency in the order of their first occurrence; a qualifying word
\* is left out only when 10 are listed, none of them less frequent.
C20_KeywordsRanked ==
    pc = "stats" =>
        \A n \in DOMAIN posts_data :
            AreKeywordsOf(posts_data[n].keywords, posts_data[n].content)

\* a content with 11 qualifying words: the two most frequent lead the
\* list, ahead of a word seen before them, and the word seen last is left
\* out
C20_Witness ==
    /\ pc = "stats"
    /\ Len(posts_data) = 1
    /\ posts_data[1].keywords =
           <<"baby", "naps", "tiny", "eats", "time", "milk", "cots", "bibs",
             "toys", "play">>

\* the resource keywords
ResourceWords ==
    {"book", "website", "article", "doctor", "specialist",
     "product", "service", "app", "tool", "resource"}

\* the emotion keywords found in content, letter case ignored, in the
\* order of the list
EmotionsIn(content) ==
    SelectSeq(<<"worried", "scared", "excited", "frustrated", "happy",
                "sad", "anxious", "grateful", "confused", "hopeful">>,
              LAMBDA word : HasAny({word}, content))

\* C21: sentiment_indicators is the emotion-keyword list cut down to the
\* keywords found in the content, letter case ignored, in list order; each
\* resource mention is the lower-case form of a word of the content and
\* holds a resource keyword.
C21_IndicatorsAndMentions ==
    pc = "stats" =>
        \A n \in DOMAIN posts_data :
            /\ posts_data[n].sentiment_indicators =
                   EmotionsIn(posts_data[n].content)
            /\ \A m \in posts_data[n].resource_mentions :
                   /\ \E i \in Starts(posts_data[n].content) :
                          Spells(posts_data[n].content, i, m)
                   /\ HasAny(ResourceWords, m)

\* C21 as stated: each resource mention is a word of the content as the
\* content spells it.
C21_MentionsAreWordsOfContent ==
    pc = "stats" =>
        \A n \in DOMAIN posts_data :
            /\ posts_data[n].sentiment_indicators =
                   EmotionsIn(posts_data[n].content)
            /\ \A m \in posts_data[n].resource_mentions :
                   /\ \E i \in Starts(posts_data[n].content) :
                          SubSeq(posts_data[n].content, i,
                                 RunEnd(posts_data[n].content, i)) = m
                   /\ HasAny(ResourceWords, m)

\* "happy" inside "unhappy" and "sad" inside "Sadly" are reported in list
\* order; "Doctor", "doctor" and "Book" give the two mentions "doctor" and
\* "book", and "unhappy" is a mention for its "app"
C21_Witness ==
    /\ pc = "stats"
    /\ Len(posts_data) = 1
    /\ posts_data[1].content = "Sadly unhappy: ask a Doctor, my doctor has a Book"
    /\ posts_data[1].sentiment_indicators = <<"happy", "sad">>
    /\ posts_data[1].resource_mentions = {"unhappy", "doctor", "book"}

\* the text of the first element of fragment i that selector k of the
\* list matches, None when it matches none
CountText(tree, i, selectors, k) ==
    IF SelectOne(tree, i, selectors[k]) = 0 THEN None
    ELSE GetText(tree, SelectOne(tree, i, selectors[k]))

\* the selectors of the list whose first element in fragment i has a
\* digit in its text
WithDigits(tree, i, selectors) ==
    {k \in DOMAIN selectors :
        /\ CountText(tree, i, selectors, k) # None
        /\ \E d \in 1..Len(CountText(tree, i, selectors, k)) :
               IsDigit(Ch(CountText(tree, i, selectors, k), d))}

\* the first run of digits in the element of the first selector whose
\* element has a digit, 0 when there is no such selector
CountByDigits(tree, i, selectors) ==
    IF WithDigits(tree, i, selectors) = {} THEN 0
    ELSE ToInt(FirstDigits(CountText(tree, i, selectors,
             CHOOSE k \in WithDigits(tree, i, selectors) :
                 \A j \in WithDigits(tree, i, selectors) : k <= j)))

\* the first run of digits in the element of the first selector that
\* matches, 0 when that element has no digit or no selector matches
CountByMatch(tree, i, selectors) ==
    LET matching == {k \in DOMAIN selectors :
                        CountText(tree, i, selectors, k) # None}
    IN  IF matching = {} THEN 0
        ELSE ToInt(FirstDigits(CountText(tree, i, selectors,
                 CHOOSE k \in matching : \A j \in matching : k <= j)))

ReplySelectors == <<Cls("replies"), Cls("reply-count"), ClsSub("replies")>>
ViewSelectors == <<Cls("views"), Cls("view-count"), ClsSub("views")>>

\* C22 (as amended): the replies count of a fragment is the first run of
\* digits in the text of the first element matched by the first selector
\* of .replies, .reply-count, [class*="replies"] whose first element has a
\* digit in its text, and 0 when there is no such selector; likewise the
\* views count; both are natural numbers, and they are the counts of the
\* record the fragment gives.
C22_CountsFromFirstWithDigits ==
    InLoop =>
        /\ \A k \in {idx} \ {0} :
               /\ ExtractRepliesCount(page, posts[k])
                      = CountByDigits(page, posts[k], ReplySelectors)
               /\ ExtractViewsCount(page, posts[k])
                      = CountByDigits(page, posts[k], ViewSelectors)
               /\ ExtractRepliesCount(page, posts[k]) \in Nat
               /\ ExtractViewsCount(page, posts[k]) \in Nat
        /\ (Len(posts) = 1 /\ Len(posts_data) = 1) =>
               /\ posts_data[1].replies_count
                      = CountByDigits(page, posts[1], ReplySelectors)
               /\ posts_data[1].views_count
                      = CountByDigits(page, posts[1], ViewSelectors)

\* C22 (as claimed): the first selector that matches an element decides;
\* the count is 0 when that element has no digit.
C22_CountsFromFirstMatch ==
    (InLoop /\ Len(posts) = 1 /\ Len(posts_data) = 1) =>
            /\ posts_data[1].replies_count
                   = CountByMatch(page, posts[1], ReplySelectors)
            /\ posts_data[1].views_count
                   = CountByMatch(page, posts[1], ViewSelectors)

\* the .replies element reads "no replies yet", the .reply-count element
\* "5": the record has 5 replies, and 12 views from "Views: 12, 3 today"
C22_Witness ==
    /\ pc = "stats"
    /\ Len(posts) = 1
    /\ Len(posts_data) = 1
    /\ CountText(page, posts[1], ReplySelectors, 1) = "no replies yet"
    /\ posts_data[1].replies_count = 5
    /\ posts_data[1].views_count = 12

\* the seven content selectors in their order
ContentSelectors ==
    <<Cls("content"), Cls("message-content"), Cls("post-content"),
      Cls("body"), ClsSub("content"), ClsSub("message"), ClsSub("body")>>

RECURSIVE TriedUpTo(_, _, _)
\* the tree once the first elements that selectors 1..k match in fragment
\* i were cleaned of quotes, signatures and edit notices, one after the
\* other
TriedUpTo(tree, i, k) ==
    IF k = 0 THEN tree
    ELSE LET before == TriedUpTo(tree, i, k - 1)
         IN  IF SelectOne(before, i, ContentSelectors[k]) = 0 THEN before
             ELSE CleanContentElement(before,
                                      SelectOne(before, i, ContentSelectors[k]))

\* the trimmed text of the cleaned element of selector k, None when the
\* selector matches nothing
CleanedText(tree, i, k) ==
    IF SelectOne(TriedUpTo(tree, i, k - 1), i, ContentSelectors[k]) = 0 THEN None
    ELSE Strip(GetText(TriedUpTo(tree, i, k),
                       SelectOne(TriedUpTo(tree, i, k - 1), i, ContentSelectors[k])))

\* the content of fragment i: the cleaned text of the first selector that
\* gives more than 10 characters, else the whole text left by the cleaning
\* when that has more than 10 characters, else None
ContentOf(tree, i) ==
    LET long == {k \in DOMAIN ContentSelectors :
                    /\ CleanedText(tree, i, k) # None
                    /\ Len(CleanedText(tree, i, k)) > 10}
        whole == Strip(GetText(TriedUpTo(tree, i, Len(ContentSelectors)), i))
    IN  IF long # {}
        THEN CleanedText(tree, i, CHOOSE k \in long : \A j \in long : k <= j)
        ELSE IF Len(whole) > 10 THEN whole ELSE None

\* the content as claimed: the cleaned text of the first selector that
\* matches when that has more than 10 characters, else the whole text
\* when that has more than 10 characters, else None
ContentByFirstMatch(tree, i) ==
    LET matching == {k \in DOMAIN ContentSelectors :
                        SelectOne(tree, i, ContentSelectors[k]) # 0}
        first == CHOOSE k \in matching : \A j \in matching : k <= j
        cleaned == IF matching = {} THEN tree
                   ELSE CleanContentElement(tree,
                            SelectOne(tree, i, ContentSelectors[first]))
        text == IF matching = {} THEN ""
                ELSE Strip(GetText(cleaned,
                         SelectOne(tree, i, ContentSelectors[first])))
        whole == Strip(GetText(cleaned, i))
    IN  IF Len(text) > 10 THEN text
        ELSE IF Len(whole) > 10 THEN whole ELSE None

\* C23 (as amended): the content of a fragment is the cleaned, trimmed
\* text of the first content selector whose first element, cleaned of its
\* quote, signature and edit-notice sub-elements, has more than 10
\* characters; a selector whose element is shorter is passed over; when
\* no selector gives a content it is the whole text of the fragment, as
\* the cleaning left it, when that has more than 10 characters; otherwise
\* the content is None and the fragment gives no record.
C23_ContentFromFirstLongEnough ==
    InLoop =>
        /\ \A k \in {idx} \ {0} :
               ExtractContent(page, posts[k]).val = ContentOf(page, posts[k])
        /\ (pc = "stats" /\ Len(posts) = 1) =>
               /\ ContentOf(page, posts[1]) = None => posts_data = <<>>
               /\ \A n \in DOMAIN posts_data :
                      posts_data[n].content = ContentOf(page, posts[1])

\* C23 (as claimed): the first content selector that matches decides
\* between its cleaned text and the whole text of the fragment.
C23_ContentFromFirstMatch ==
    (pc = "stats" /\ Len(posts) = 1) =>
        /\ ContentByFirstMatch(page, posts[1]) = None => posts_data = <<>>
        /\ \A n \in DOMAIN posts_data :
               posts_data[n].content = ContentByFirstMatch(page, posts[1])

\* the .content element reads "Hi there": the content of the record is
\* the text of the .body element, not the whole text of the fragment
C23_Witness ==
    /\ pc = "stats"
    /\ Len(posts) = 1
    /\ Len(posts_data) = 1
    /\ CleanedText(page, posts[1], 1) = "Hi there"
    /\ posts_data[1].content = Plain
    /\ Strip(GetText(page, posts[1])) = "Hi there" \o Plain

\* the elements of fragment i that match a tag-like selector, in document
\* order
TagElements(tree, i) ==
    InOrder(tree, {j \in Descendants(tree, i) :
        \E selector \in {Cls("tag"), Cls("category"), Cls("label"), ClsSub("tag")} :
            Matches(tree[j], selector)})

\* their trimmed texts, the empty ones left out
TagTexts(tree, i) ==
    LET filled == SelectSeq(TagElements(tree, i),
                            LAMBDA j : Strip(GetText(tree, j)) # "")
    IN  [k \in DOMAIN filled |-> Strip(GetText(tree, filled[k]))]

\* C24: the tags of a record are the trimmed non-empty texts of the
\* elements of its fragment that match a tag-like selector, one entry for
\* each element, in document order.
C24_TagsInDocumentOrder ==
    (pc = "stats" /\ Len(posts) = 1) =>
        \A n \in DOMAIN posts_data :
            posts_data[n].tags = TagTexts(page, posts[1])

\* the anchors of fragment i that have a href and a visible text, in
\* document order
Anchors(tree, i) ==
    InOrder(tree, {j \in Descendants(tree, i) :
        /\ tree[j].tag = "a"
        /\ tree[j].attrs["href"] # ""
        /\ Strip(GetText(tree, j)) # ""})

\* C25: the links of a record are one entry, in document order, for each
\* anchor of its fragment on the page that has a non-empty href and a
\* non-empty visible text: the href as url, the trimmed text as text, and
\* a type.
C25_LinksOfEveryAnchor ==
    (pc = "stats" /\ Len(posts) = 1) =>
        \A n \in DOMAIN posts_data :
            /\ Len(posts_data[n].links) = Len(Anchors(page, posts[1]))
            /\ \A l \in DOMAIN posts_data[n].links :
                   /\ posts_data[n].links[l].url
                          = page[Anchors(page, posts[1])[l]].attrs["href"]
                   /\ posts_data[n].links[l].text
                          = Strip(GetText(page, Anchors(page, posts[1])[l]))
                   /\ posts_data[n].links[l].type \in
                          {"product", "document", "video", "email", "external"}

\* snippet is what a question post of section sec with at most 2 replies
\* shows: its title, or the first 150 characters of its content
FromLowQuestion(snippet, sec) ==
    \E k \in DOMAIN df :
        /\ df[k].is_question
        /\ df[k].section = sec
        /\ df[k].replies_count <= 2
        /\ \/ snippet = df[k].title
           \/ \E n \in 0..150 :
                  /\ n <= Len(df[k].content)
                  /\ snippet = SubSeq(df[k].content, 1, n)

\* C26: in the resource-gaps result every section has at most 10
\* snippets, each snippet comes from a question post of that section with
\* at most 2 replies, and no snippet is longer than 150 characters.
C26_GapsAreShortSnippets ==
    pc = "analyzed" =>
        \A s \in DOMAIN gaps :
            /\ Len(gaps[s].gaps) <= 10
            /\ \A g \in DOMAIN gaps[s].gaps :
                   /\ FromLowQuestion(gaps[s].gaps[g], gaps[s].name)
                   /\ Len(gaps[s].gaps[g]) <= 150

\* the same without the limit on the length of a snippet
C26_GapsWithoutLength ==
    pc = "analyzed" =>
        \A s \in DOMAIN gaps :
            /\ Len(gaps[s].gaps) <= 10
            /\ \A g \in DOMAIN gaps[s].gaps :
                   FromLowQuestion(gaps[s].gaps[g], gaps[s].name)

C28_GetOrPost ==
    /\ pc = "request"
    /\ UpperMethod(called.args[2]) \in {"GET", "POST"}

\* the failed attempts that were not the last one allowed
C28_Retried == {i \in DOMAIN outcomes : ~outcomes[i] /\ i < MAX_RETRIES}

\* at most MAX_RETRIES attempts, none after one that succeeded; one delay and
\* one rotation for each failed attempt but the last allowed; and once the
\* call has ended: None exactly after MAX_RETRIES failures, else the
\* response of the attempt that succeeded
C28_Attempts ==
    C28_GetOrPost =>
        /\ Len(outcomes) <= MAX_RETRIES
        /\ \A i \in 1..(Len(outcomes) - 1) : ~outcomes[i]
        /\ Len(slept) = Cardinality(C28_Retried)
        /\ rotations = Cardinality(C28_Retried)
        /\ \A i \in DOMAIN slept : slept[i] > 0
        /\ request = NotRequesting =>
               /\ Len(outcomes) >= 1
               /\ response = Ok(None) <=>
                      /\ Len(outcomes) = MAX_RETRIES
                      /\ \A i \in DOMAIN outcomes : ~outcomes[i]
               /\ response # Ok(None) =>
                      /\ response = Ok(called.args[1])
                      /\ outcomes[Len(outcomes)]

\* C28: a _make_request call with method GET or POST ends after at most
\* MAX_RETRIES attempts; it returns the response of the first attempt that
\* succeeds and makes no attempt after it; it returns None exactly when
\* MAX_RETRIES attempts in a row failed with a request error; after every
\* failed attempt but the last the user agent is rotated and a delay taken.
C28_RequestEndsWithinRetries ==
    /\ []C28_Attempts
    /\ C28_GetOrPost ~> (request = NotRequesting)

\* a POST call gave up after three failures, two delays and two rotations
C28_Witness ==
    /\ pc = "request"
    /\ called.args[2] = "post"
    /\ request = NotRequesting
    /\ outcomes = <<FALSE, FALSE, FALSE>>
    /\ response = Ok(None)
    /\ slept = <<RETRY_DELAY, 2 * RETRY_DELAY>>
    /\ rotations = 2

\* url is a page of a forum section
C29_IsForumPage(url) ==
    LET prefix == BASE_URL \o "/forum/"
    IN  /\ Len(url) >= Len(prefix)
        /\ SubSeq(url, 1, Len(prefix)) = prefix

\* a step that enters _make_request for a forum page, or sends a request
\* for one
C29_RequestsForumPage ==
    \/ /\ request' # request
       /\ request' # NotRequesting
       /\ C29_IsForumPage(request'.url)
    \/ /\ Len(requests_made') > Len(requests_made)
       /\ C29_IsForumPage(requests_made'[Len(requests_made')].url)

\* a step that calls scrape_section or scrape_all_sections
C29_ScrapeCalled ==
    /\ calls' = calls + 1
    /\ called'.op \in {"scrape_section", "scrape_all_sections"}

\* a step in which logout returns, called directly or by __exit__
C29_LogoutReturns ==
    \/ /\ calls' = calls + 1
       /\ called'.op \in {"logout", "__exit__"}
       /\ pc' = "idle"
    \/ pc = "logout" /\ pc' = "idle"

\* C29: in any sequence of login, scrape_section, scrape_all_sections and
\* logout calls no forum page is requested while session_active is false:
\* scrape_section and scrape_all_sections then return an empty result
\* without a request; session_active becomes true only through a login
\* that succeeded; it is false after every logout, also the one of __exit__.
C29_NoScrapingWithoutSession ==
    [][/\ C29_RequestsForumPage => session_active /\ session_active'
       /\ (C29_ScrapeCalled /\ ~session_active) =>
              /\ pc' = "idle"
              /\ ret' = <<>>
              /\ request' = NotRequesting
              /\ requests_made' = <<>>
       /\ (~session_active /\ session_active') =>
              /\ called.op = "login"
              /\ pc = "login_post"
              /\ response # Ok(None)
              /\ ~response.exc
              /\ ret' = TRUE
       /\ C29_LogoutReturns => ~session_active']_vars

\* after two other calls, scrape_section on a site that has a record
\* returned nothing and sent no request, the session not being active
C29_Witness ==
    /\ pc = "idle"
    /\ calls = 3
    /\ ~session_active
    /\ called = [op |-> "scrape_section", args |-> <<"married_life", NoInt>>]
    /\ ret = <<>>
    /\ requests_made = <<>>
    /\ forum = Site(<<1>>)

\* the page the i-th request of the scrape_section call asked for: pages
\* asked for in increasing order from 1 make it one of 1..i
C30_PageOf(i) ==
    CHOOSE p \in 1..i :
        requests_made[i].url = PageUrl(called.args[1], p)

\* the last page asked for, 0 when none was
C30_LastPage ==
    IF requests_made = <<>> THEN 0 ELSE C30_PageOf(Len(requests_made))

\* page p was fetched: a request for it succeeded
C30_Fetched(p) ==
    \E i \in DOMAIN requests_made : C30_PageOf(i) = p /\ requests_made[i].ok

\* the records of the fetched pages among 1..p, in page order
RECURSIVE C30_Collected(_)
C30_Collected(p) ==
    IF p = 0
    THEN <<>>
    ELSE C30_Collected(p - 1)
         \o (IF C30_Fetched(p) THEN PageData(called.args[1], p) ELSE <<>>)

\* the pages are asked for in increasing order from 1, a page again only
\* after a failed attempt; no page is asked for after a fetched page that
\* is not full; at the return the last page is a fetched page that is not
\* full or page limit, and the result is what the fetched pages hold
C30_PagesInOrder(limit) ==
    /\ \A i \in DOMAIN requests_made :
           /\ \E p \in 1..i : requests_made[i].url = PageUrl(called.args[1], p)
           /\ i = 1 => C30_PageOf(i) = 1
           /\ i > 1 =>
                  \/ /\ C30_PageOf(i) = C30_PageOf(i - 1)
                     /\ ~requests_made[i - 1].ok
                  \/ C30_PageOf(i) = C30_PageOf(i - 1) + 1
    /\ C30_LastPage <= limit
    /\ \A p \in 1..(C30_LastPage - 1) :
           C30_Fetched(p) => Len(PageData(called.args[1], p)) = MAX_POSTS_PER_PAGE
    /\ pc = "idle" =>
           /\ \/ C30_LastPage = limit
              \/ /\ C30_Fetched(C30_LastPage)
                 /\ Len(PageData(called.args[1], C30_LastPage)) < MAX_POSTS_PER_PAGE
           /\ ret = C30_Collected(C30_LastPage)

\* scrape_section was called with a known section by a scraper logged in
C30_Scraping ==
    /\ calls = MaxCalls
    /\ called.op = "scrape_section"
    /\ called.args[1] \in SectionNames

\* C30 as stated: scrape_section requests pages 1, 2, ... in increasing
\* order, at most max_pages of them (MAX_PAGES_PER_SECTION when max_pages is
\* None), and stops after the first fetched page with no record or fewer
\* than MAX_POSTS_PER_PAGE records; a page whose fetch fails is skipped and
\* the next page still requested; the result is the concatenation, in page
\* order, of the records of the fetched pages.
C30_AtMostMaxPages ==
    C30_Scraping =>
        C30_PagesInOrder(IF called.args[2] = NoInt
                         THEN MAX_PAGES_PER_SECTION
                         ELSE called.args[2][1])

\* the same with max_pages 0 taken as no limit given: at most
\* MAX_PAGES_PER_SECTION pages when max_pages is None or 0
C30_AtMostMaxPagesOrDefault ==
    C30_Scraping =>
        C30_PagesInOrder(IF called.args[2] \in {NoInt, Given(0)}
                         THEN MAX_PAGES_PER_SECTION
                         ELSE called.args[2][1])

\* page 1 failed three times and was skipped, page 2 was full, page 3 held
\* one record and ended the scrape
C30_SkippedAndStopped ==
    /\ pc = "idle"
    /\ C30_Scraping
    /\ called.args[2] = NoInt
    /\ forum = Site(<<MAX_POSTS_PER_PAGE, MAX_POSTS_PER_PAGE, 1>>)
    /\ Len(requests_made) = MAX_RETRIES + 2
    /\ ~C30_Fetched(1)
    /\ C30_Fetched(2)
    /\ C30_Fetched(3)
    /\ Len(ret) = MAX_POSTS_PER_PAGE + 1
    /\ ret[1].page = 2
    /\ ret[Len(ret)].page = 3

=============================================================================
